---- MODULE Spec2Model ----
(***************************************************************************)
(* A model of the rhdh-skill command line helper: the markdown TodoStore   *)
(* (src/rhdh_plugin/todo.py), the JSONL WorklogStore, the layered          *)
(* ConfigStore and the RepoLocator (src/skills/rhdh/rhdh/worklog.py and    *)
(* config.py).                                                             *)
(*                                                                         *)
(* Text.  A string is a sequence of tokens.  A token is one character the  *)
(* caller typed ("q", "z", "Q", " ", the newline "\n") or one literal      *)
(* fragment that the code writes or tests for ("## [ ]", "---", "<!--",    *)
(* "**Created:**", ...).  The caller's letters are letters that occur in   *)
(* no literal fragment, and no two adjacent tokens spell a third one, so   *)
(* `x in s`, startswith, strip, replace and split on tokens give what the  *)
(* Python operations give on the characters.  A file's content is kept as  *)
(* content.split("\n"): a non-empty sequence of lines without "\n".        *)
(***************************************************************************)
EXTENDS Integers, Sequences, FiniteSets, TLC

VARIABLES
    todo_file,   \* TODO.md: NoFile, or its content as a sequence of lines
    before,      \* TODO.md as it was when the call made last began
    last,        \* the call made last: [op, title, context, slug, note]
    ret,         \* what that call returned
    n_adds,      \* add_todo calls made so far
    n_notes,     \* add_note calls made so far
    worklog_file,\* worklog.jsonl: NoFile, or Some(its content)
    clock,       \* datetime.now(timezone.utc), in ticks
    appended,    \* the entries add_entry has returned, oldest first
    user_config, \* ~/.config/rhdh/config.json: NoFile, or Some(its text)
    project_config, \* .rhdh/config.json: NoFile, or Some(its text)
    environ,     \* os.environ: variable |-> None, or Some(its value)
    dirs,        \* the directories that exist, by canonical path
    n_sets,      \* `config set` calls made so far
    pc,          \* invocations that run side by side: where each one is
    local        \* what each of them holds in memory

todo_vars == <<todo_file, before, n_adds, n_notes>>
worklog_vars == <<worklog_file, clock, appended>>
config_vars == <<user_config, project_config, environ, dirs, n_sets>>
proc_vars == <<pc, local>>
vars == <<todo_vars, worklog_vars, config_vars, proc_vars, last, ret>>

----------------------------------------------------------------------------
(* Bounds of the model *)

\* add_todo calls in one run
MaxAdds == 2
\* add_note calls in one run
MaxNotes == 1
\* add_entry calls in one run
MaxEntries == 2
\* The largest limit that read_entries and search_entries are called with
MaxLimit == 2
\* `config set` calls in one run
MaxSets == 2
\* The nesting depth of the documents that deep_merge is applied to
MergeDepth == 2
\* The number of `config set` calls of a run of the ConfigStore
MaxConfigSets == 1
\* The titles given to slugify: how far below the limit of the slug their
\* first word may end, and the length of their second word
RunSlack == 3
MaxTail == 2
\* The number of names in a key of the documents given to collect_keys
MaxKeyParts == 2
\* The add_todo and add_note calls of a run that is about notes
NoteAdds == 2
NoteCalls == 2
\* The number of lines of the documents given to _parse_todos
MaxDocLines == 4

----------------------------------------------------------------------------
(* Text helpers *)

\* Optional[T]: None is <<>>, a value v is <<v>>.
None == <<>>
Some(v) == <<v>>

\* A file that does not exist.  An existing file has at least one line,
\* since "".split("\n") == [""].
NoFile == <<>>

\* `tok in line`
Contains(line, tok) == \E i \in 1..Len(line) : line[i] = tok

RECURSIVE LStrip(_)
LStrip(s) == IF s # <<>> /\ Head(s) = " " THEN LStrip(Tail(s)) ELSE s

RECURSIVE RStrip(_)
RStrip(s) ==
    IF s # <<>> /\ s[Len(s)] = " " THEN RStrip(SubSeq(s, 1, Len(s) - 1)) ELSE s

\* str.strip()
Strip(s) == RStrip(LStrip(s))

\* str.startswith(tok), tok one literal fragment
StartsWith(line, tok) == line # <<>> /\ Head(line) = tok

\* The tokens whose first character is "#"
HashTokens == {"#", "# RHDH Plugin Todos", "## [ ]", "## [x]", "### Notes"}

\* str.replace(old, new) for single tokens; new = <<>> removes
RECURSIVE Replace(_, _, _)
Replace(s, old, new) ==
    IF s = <<>> THEN <<>>
    ELSE (IF Head(s) = old THEN new ELSE <<Head(s)>>) \o Replace(Tail(s), old, new)

\* ["a", "b"] joined by "\n" and split on "\n" again: a line that holds a
\* newline token becomes several lines.
RECURSIVE SplitLine(_, _)
SplitLine(s, acc) ==
    IF s = <<>> THEN <<acc>>
    ELSE IF Head(s) = "\n" THEN <<acc>> \o SplitLine(Tail(s), <<>>)
    ELSE SplitLine(Tail(s), Append(acc, Head(s)))

RECURSIVE SplitLines(_)
SplitLines(lines) ==
    IF lines = <<>> THEN <<>>
    ELSE IF Len(lines) = 1 THEN SplitLine(Head(lines), <<>>)
    ELSE LET mid == Len(lines) \div 2
         IN  SplitLines(SubSeq(lines, 1, mid)) \o SplitLines(SubSeq(lines, mid + 1, Len(lines)))

\* "\n".join(lines), as one string
RECURSIVE JoinLines(_)
JoinLines(lines) ==
    IF lines = <<>> THEN <<>>
    ELSE IF Len(lines) = 1 THEN Head(lines)
    ELSE Head(lines) \o <<"\n">> \o JoinLines(Tail(lines))

\* `sub in s`
IsSubstring(sub, s) ==
    \E i \in 0..(Len(s) - Len(sub)) : SubSeq(s, i + 1, i + Len(sub)) = sub

\* datetime.now(timezone.utc).strftime("%Y-%m-%d")
Today == "2026-11-03"

----------------------------------------------------------------------------
(* todo.py *)

DEFAULT_TODO_CONTENT ==
    << <<"# RHDH Plugin Todos">>,
       <<>>,
       <<"Track uncertainties, follow-ups, and action items from plugin work.">>,
       <<>>,
       <<"---">>,
       <<>>,
       <<"<!--", " ", "TEMPLATE (do not remove)">>,
       <<"## [ ]", " ", "<title>">>,
       <<"**Created:**", " ", "<date>">>,
       <<"**Context:**", " ", "<optional workspace or PR context>">>,
       <<>>,
       <<"<description of what needs to be done>">>,
       <<>>,
       <<"### Notes">>,
       <<"-", " ", "<date>", ":", " ", "<update>">>,
       <<>>,
       <<"---">>,
       <<"-->">>,
       <<>> >>

\* title.lower() with every character outside [a-z0-9] replaced by "-",
\* token by token (a run of such characters is collapsed below).
SlugChars(tok) ==
    CASE tok = "q" -> <<"q">>
      [] tok = "z" -> <<"z">>
      [] tok = "Q" -> <<"q">>
      [] tok = "## [x]" -> <<"-", "x", "-">>
      [] tok \in {" ", "\n", "-", ":", "---", "<!--", "-->", "## [ ]"} -> <<"-">>

RECURSIVE LowerDash(_)
LowerDash(title) ==
    IF title = <<>> THEN <<>> ELSE SlugChars(Head(title)) \o LowerDash(Tail(title))

\* re.sub(r"[^a-z0-9]+", "-", slug): a run of hyphens becomes one
RECURSIVE Collapse(_)
Collapse(s) ==
    IF Len(s) < 2 THEN s
    ELSE IF s[1] = "-" /\ s[2] = "-" THEN Collapse(Tail(s))
    ELSE <<s[1]>> \o Collapse(Tail(s))

RECURSIVE LStripDash(_)
LStripDash(s) == IF s # <<>> /\ Head(s) = "-" THEN LStripDash(Tail(s)) ELSE s

RECURSIVE RStripDash(_)
RStripDash(s) ==
    IF s # <<>> /\ s[Len(s)] = "-" THEN RStripDash(SubSeq(s, 1, Len(s) - 1)) ELSE s

\* s.rsplit("-", 1)[0]
RECURSIVE RSplitDash(_, _)
RSplitDash(s, i) ==
    IF i = 0 THEN s
    ELSE IF s[i] = "-" THEN SubSeq(s, 1, i - 1)
    ELSE RSplitDash(s, i - 1)

SlugMaxLen == 50

\* A slug cut at the limit and not at the hyphen before it
slugify_CutAtLimit(title) ==
    LET slug == RStripDash(LStripDash(Collapse(LowerDash(title))))
    IN  IF Len(slug) > SlugMaxLen THEN SubSeq(slug, 1, SlugMaxLen) ELSE slug

slugify(title) ==
    LET slug == RStripDash(LStripDash(Collapse(LowerDash(title))))
    IN  IF Len(slug) > SlugMaxLen
        THEN RSplitDash(SubSeq(slug, 1, SlugMaxLen), SlugMaxLen)
        ELSE slug

\* TODO_HEADER_PATTERN = ^## \[([ x])\] (.+)$
HeaderMatches(line) ==
    /\ Len(line) >= 3
    /\ line[1] \in {"## [ ]", "## [x]"}
    /\ line[2] = " "

\* The value of the last line of the section that starts with the marker
RECURSIVE Metadata(_, _, _)
Metadata(section_lines, marker, found) ==
    IF section_lines = <<>> THEN found
    ELSE LET line == Head(section_lines)
         IN  Metadata(Tail(section_lines), marker,
                      IF StartsWith(line, marker)
                      THEN Some(Strip(Replace(line, marker, <<>>)))
                      ELSE found)

_make_todo_item(data, lines) ==
    LET section_lines == SubSeq(lines, data.line_start + 1, data.line_end)
    IN  [ slug |-> slugify(data.title),
          title |-> data.title,
          done |-> data.done,
          line_start |-> data.line_start,
          line_end |-> data.line_end,
          created |-> Metadata(section_lines, "**Created:**", None),
          completed |-> Metadata(section_lines, "**Completed:**", None),
          context |-> Metadata(section_lines, "**Context:**", None),
          raw_content |-> section_lines ]

\* One turn of the loop of _parse_todos, on line i (0-indexed)
ParseStep(lines, i, st) ==
    LET line == lines[i + 1]
        current_todo == st.current_todo
        closed == IF current_todo # None
                  THEN Append(st.todos,
                              _make_todo_item([current_todo[1] EXCEPT !.line_end = i],
                                              lines))
                  ELSE st.todos
    IN  IF Contains(line, "-->")
        THEN [st EXCEPT !.in_comment = FALSE]
        ELSE IF st.in_comment \/ Contains(line, "<!--")
        THEN [st EXCEPT !.in_comment = TRUE]
        ELSE IF Strip(line) = <<"---">> /\ current_todo # None
        THEN [current_todo |-> None, in_comment |-> FALSE, todos |-> closed]
        ELSE IF HeaderMatches(line)
        THEN [ current_todo |-> Some([ title |-> Strip(SubSeq(line, 3, Len(line))),
                                       done |-> (line[1] = "## [x]"),
                                       line_start |-> i,
                                       line_end |-> Len(lines) ]),
               in_comment |-> FALSE,
               todos |-> closed ]
        ELSE st

\* The loop of _parse_todos over the lines lo .. hi - 1 (0-indexed), taken
\* in order, from the state st the lines before lo have left. The range is
\* halved and st is looked at first, so that a long document is evaluated
\* in few nested steps.
RECURSIVE ParseFrom(_, _, _, _)
ParseFrom(lines, lo, hi, st) ==
    IF st.in_comment \notin BOOLEAN \/ hi <= lo THEN st
    ELSE IF hi = lo + 1 THEN ParseStep(lines, lo, st)
    ELSE LET mid == (lo + hi) \div 2
         IN  ParseFrom(lines, mid, hi, ParseFrom(lines, lo, mid, st))

\* The end of the loop: the item still open is closed at the last line
CloseLast(lines, st) ==
    IF st.current_todo # None
    THEN Append(st.todos,
                _make_todo_item([st.current_todo[1] EXCEPT !.line_end = Len(lines)],
                                lines))
    ELSE st.todos

_parse_todos(lines) ==
    CloseLast(lines, ParseFrom(lines, 0, Len(lines),
                               [current_todo |-> None, in_comment |-> FALSE,
                                todos |-> <<>>]))

\* The file's content after _ensure_todo_file()
_ensure_todo_file(file) == IF file = NoFile THEN DEFAULT_TODO_CONTENT ELSE file

\* A write that drops the empty lines at the end of the document
WriteText_Stripped(lines) ==
    LET kept == {i \in 1..Len(lines) : lines[i] # <<>>}
        last_kept == IF kept = {} THEN 1 ELSE CHOOSE i \in kept : \A j \in kept : j <= i
    IN  SplitLines(SubSeq(lines, 1, last_kept))

\* TODO_FILE.write_text("\n".join(lines)), as the file is read back
WriteText(lines) == SplitLines(lines)

list_todos(file) == _parse_todos(_ensure_todo_file(file))

\* A lookup that takes the first item whose slug starts with the argument
get_todo_PrefixFirst(lines, slug) ==
    LET todos == _parse_todos(lines)
        partial == {i \in 1..Len(todos) :
                        /\ Len(todos[i].slug) >= Len(slug)
                        /\ SubSeq(todos[i].slug, 1, Len(slug)) = slug}
    IN  IF partial # {} THEN Some(todos[CHOOSE i \in partial : \A j \in partial : i <= j])
        ELSE None

\* A lookup that falls back to the first item when nothing matches
get_todo_FirstItem(lines, slug) ==
    LET todos == _parse_todos(lines)
        partial == {i \in 1..Len(todos) :
                        /\ Len(todos[i].slug) >= Len(slug)
                        /\ SubSeq(todos[i].slug, 1, Len(slug)) = slug}
    IN  IF partial # {} THEN Some(todos[CHOOSE i \in partial : \A j \in partial : i <= j])
        ELSE IF todos # <<>> THEN Some(todos[1])
        ELSE None

\* get_todo on the content of the (ensured) file
get_todo(lines, slug) ==
    LET todos == _parse_todos(lines)
        exact == {i \in 1..Len(todos) : todos[i].slug = slug}
        partial == {i \in 1..Len(todos) :
                        /\ Len(todos[i].slug) >= Len(slug)
                        /\ SubSeq(todos[i].slug, 1, Len(slug)) = slug}
        Least(S) == CHOOSE i \in S : \A j \in S : i <= j
    IN  IF exact # {} THEN Some(todos[Least(exact)])
        ELSE IF partial # {} THEN Some(todos[Least(partial)])
        ELSE None

\* The section add_todo builds
NewSection(title, context) ==
    << <<"## [ ]", " ">> \o title,
       <<"**Created:**", " ", Today>> >>
    \o (IF context # None /\ context[1] # <<>>
        THEN << <<"**Context:**", " ">> \o context[1] >>
        ELSE <<>>)
    \o << <<>>,
          <<>>,
          <<"### Notes">>,
          <<"-", " ", Today, ":", " ", "Created">>,
          <<>>,
          <<"---">>,
          <<>> >>

\* The insertion point of add_todo (0-indexed)
InsertAt(lines) ==
    LET seps == {i \in 0..(Len(lines) - 1) : Strip(lines[i + 1]) = <<"---">>}
        texts == {i \in 0..(Len(lines) - 1) :
                      /\ Strip(lines[i + 1]) # <<>>
                      /\ Head(lines[i + 1]) \notin HashTokens}
        Least(S) == CHOOSE i \in S : \A j \in S : i <= j
    IN  IF seps # {} THEN Least(seps) + 1
        ELSE IF texts # {} THEN Least(texts)
        ELSE Len(lines)

\* add_todo: [file |-> the file afterwards, ret |-> the item returned]
add_todo(file, title, context) ==
    LET lines == _ensure_todo_file(file)
        new_section == NewSection(title, context)
        insert_at == InsertAt(lines)
        new_lines == SubSeq(lines, 1, insert_at) \o << <<>> >> \o new_section
                         \o SubSeq(lines, insert_at + 1, Len(lines))
    IN  [ file |-> WriteText(new_lines),
          ret |-> Some([ slug |-> slugify(title),
                         title |-> title,
                         done |-> FALSE,
                         line_start |-> insert_at + 1,
                         line_end |-> insert_at + 1 + Len(new_section),
                         created |-> Some(<<Today>>),
                         completed |-> None,
                         context |-> context,
                         raw_content |-> << <<>> >> ]) ]

\* lines.insert(i, x), i 0-indexed and at most len(lines)
Insert(lines, i, x) == SubSeq(lines, 1, i) \o <<x>> \o SubSeq(lines, i + 1, Len(lines))

\* The least i in range(lo, hi) whose line satisfies Test; -1 when none
FirstInRange(lines, lo, hi, Test(_)) ==
    LET S == {i \in lo..(hi - 1) : Test(lines[i + 1])}
    IN  IF S = {} THEN -1 ELSE CHOOSE i \in S : \A j \in S : i <= j

Min(a, b) == IF a <= b THEN a ELSE b

\* A mark_done that checks the box and writes no `**Completed:**` line
MarkDoneLines_NoCompleted(lines, todo) ==
    [lines EXCEPT ![todo.line_start + 1] = Replace(@, "## [ ]", <<"## [x]">>)]

\* The lines mark_done writes for the item it resolved
MarkDoneLines(lines, todo) ==
    LET IsCreated(l) == StartsWith(l, "**Created:**")
        flipped == [lines EXCEPT ![todo.line_start + 1] =
                        Replace(@, "## [ ]", <<"## [x]">>)]
        i == FirstInRange(flipped, todo.line_start,
                          Min(todo.line_end, Len(flipped)), IsCreated)
    IN  IF i >= 0
        THEN Insert(flipped, i + 1, <<"**Completed:**", " ", Today>>)
        ELSE flipped

\* A mark_done without the early return for an item that is done
mark_done_NoDoneCheck(file, slug) ==
    LET lines == _ensure_todo_file(file)
        todo == get_todo(lines, slug)
    IN  IF todo = None THEN [file |-> lines, ret |-> None]
        ELSE [ file |-> WriteText(MarkDoneLines(lines, todo[1])),
               ret |-> Some([todo[1] EXCEPT !.done = TRUE,
                                            !.completed = Some(<<Today>>)]) ]

mark_done(file, slug) ==
    LET lines == _ensure_todo_file(file)
        todo == get_todo(lines, slug)
    IN  IF todo = None THEN [file |-> lines, ret |-> None]
        ELSE IF todo[1].done THEN [file |-> lines, ret |-> todo]
        ELSE [ file |-> WriteText(MarkDoneLines(lines, todo[1])),
               ret |-> Some([todo[1] EXCEPT !.done = TRUE,
                                            !.completed = Some(<<Today>>)]) ]

\* The lines add_note writes for the item it resolved
\* A note put below the notes there are, not above them
AddNoteLines_BelowFirst(lines, todo, note) ==
    LET note_line == <<"-", " ", Today, ":", " ">> \o note
        IsNotes(l) == Strip(l) = <<"### Notes">>
        hi == Min(todo.line_end, Len(lines))
        notes_line == FirstInRange(lines, todo.line_start, hi, IsNotes)
    IN  IF notes_line >= 0 THEN Insert(lines, Min(notes_line + 2, Len(lines)), note_line)
        ELSE lines

AddNoteLines(lines, todo, note) ==
    LET note_line == <<"-", " ", Today, ":", " ">> \o note
        IsNotes(l) == Strip(l) = <<"### Notes">>
        IsSep(l) == Strip(l) = <<"---">>
        hi == Min(todo.line_end, Len(lines))
        notes_line == FirstInRange(lines, todo.line_start, hi, IsNotes)
        sep == FirstInRange(lines, todo.line_start, hi, IsSep)
    IN  IF notes_line >= 0 THEN Insert(lines, notes_line + 1, note_line)
        ELSE IF sep >= 0
        THEN Insert(Insert(Insert(lines, sep, <<>>), sep, note_line),
                    sep, <<"### Notes">>)
        ELSE lines

add_note(file, slug, note) ==
    LET lines == _ensure_todo_file(file)
        todo == get_todo(lines, slug)
    IN  IF todo = None THEN [file |-> lines, ret |-> None]
        ELSE LET written == WriteText(AddNoteLines(lines, todo[1], note))
             IN  [file |-> written, ret |-> get_todo(written, slug)]

\* show_raw(): the content, as one string
show_raw(file) == JoinLines(_ensure_todo_file(file))

----------------------------------------------------------------------------
(* worklog.py *)

(***************************************************************************)
(* The content of worklog.jsonl is a sequence of tokens: the newline NL,   *)
(* or a chunk of text, kept as what json.loads makes of it: Garbage (text  *)
(* that is no JSON), a JSON value that is no object, or a JSON object,     *)
(* kept as the function from its keys to their values.  A string value is *)
(* Str(s); the string of a timestamp is kept as what                       *)
(* datetime.fromisoformat makes of it: an instant with an offset (aware),  *)
(* an instant without (naive), or a string it rejects (BadTs).  NotStr is  *)
(* a JSON value that is no string (a number).                              *)
(***************************************************************************)
NL == [t |-> "newline"]
Garbage == [t |-> "garbage"]
JsonNumber == [t |-> "number"]
JsonArray == [t |-> "array"]
JsonObject(fields) == [t |-> "object", v |-> fields]

Str(s) == [k |-> "str", s |-> s, t |-> 0]
AwareTs(t) == [k |-> "aware", s |-> <<>>, t |-> t]
NaiveTs(t) == [k |-> "naive", s |-> <<>>, t |-> t]
BadTs == [k |-> "bad", s |-> <<>>, t |-> 0]
NotStr == [k |-> "num", s |-> <<>>, t |-> 0]

Ok(value) == [ok |-> TRUE, value |-> value, error |-> ""]
Raise(error) == [ok |-> FALSE, value |-> <<>>, error |-> error]

\* `for line in f`, each line stripped: the text between newlines, and the
\* text after the last newline when there is some
RECURSIVE FileLines(_, _)
FileLines(content, acc) ==
    IF content = <<>> THEN (IF acc = <<>> THEN <<>> ELSE <<acc>>)
    ELSE IF Head(content) = NL THEN <<acc>> \o FileLines(Tail(content), <<>>)
    ELSE FileLines(Tail(content), Append(acc, Head(content)))

\* json.loads(line) raises JSONDecodeError: the line is not one JSON value
NotJson(line) == Len(line) # 1 \/ line[1] = Garbage

\* The since_dt of read_entries: None, or [aware, t]
SinceDt(since) ==
    IF since = None THEN None
    ELSE CASE since[1].k \in {"date", "aware"} -> Some([aware |-> TRUE, t |-> since[1].t])
           [] since[1].k = "naive" -> Some([aware |-> FALSE, t |-> since[1].t])
           [] OTHER -> None

\* One pass of the loop body of read_entries: "skip", "keep" or an exception
ReadLine(line, since_dt) ==
    IF NotJson(line) THEN "skip"
    ELSE LET entry == line[1]
         IN  IF since_dt = None THEN "keep"
             ELSE IF entry.t # "object" THEN "TypeError"
             ELSE IF "ts" \notin DOMAIN entry.v THEN "skip"
             ELSE LET ts == entry.v["ts"]
                  IN  IF ts.k = "num" THEN "AttributeError"
                      ELSE IF ts.k \notin {"aware", "naive"} THEN "ValueError"
                      ELSE IF (ts.k = "aware") # since_dt[1].aware THEN "TypeError"
                      ELSE IF ts.t < since_dt[1].t THEN "skip"
                      ELSE "keep"

\* entries[:limit] (limit may be negative)
Slice(entries, limit) ==
    IF limit >= 0 THEN SubSeq(entries, 1, Min(limit, Len(entries)))
    ELSE SubSeq(entries, 1, Len(entries) + limit)

Reverse(s) == [i \in 1..Len(s) |-> s[Len(s) + 1 - i]]

\* A loop over the lines: the entries kept, or the first exception raised
\* outcomes[i] is what the loop body makes of lines[i]
RECURSIVE Loop(_, _, _)
Loop(lines, outcomes, entries) ==
    IF lines = <<>> THEN Ok(entries)
    ELSE IF Head(lines) = <<>> THEN Loop(Tail(lines), Tail(outcomes), entries)
    ELSE LET outcome == Head(outcomes)
         IN  CASE outcome = "skip" -> Loop(Tail(lines), Tail(outcomes), entries)
               [] outcome = "keep" ->
                      Loop(Tail(lines), Tail(outcomes),
                           Append(entries, Head(lines)[1]))
               [] OTHER -> Raise(outcome)

\* `if limit: entries = entries[:limit]` after entries.reverse()
Newest(entries, limit) ==
    IF limit # None /\ limit[1] # 0
    THEN Slice(Reverse(entries), limit[1])
    ELSE Reverse(entries)

read_entries(file, limit, since) ==
    IF file = NoFile THEN Ok(<<>>)
    ELSE LET since_dt == SinceDt(since)
             lines == FileLines(file[1], <<>>)
             outcomes == [i \in 1..Len(lines) |-> ReadLine(lines[i], since_dt)]
             read == Loop(lines, outcomes, <<>>)
         IN  IF read.ok THEN Ok(Newest(read.value, limit)) ELSE read

\* str.lower(), token by token
Lower(s) == [i \in 1..Len(s) |-> IF s[i] = "Q" THEN "q" ELSE s[i]]

\* re.compile(re.escape(query), re.IGNORECASE).search(text)
Search(query, text) == IsSubstring(Lower(query), Lower(text))

\* The loop over entry.get("tags", []): "keep", "skip" or an exception
RECURSIVE SearchTags(_, _)
SearchTags(query, tags) ==
    IF tags = <<>> THEN "skip"
    ELSE IF Head(tags).k # "str" THEN "TypeError"
    ELSE IF Search(query, Head(tags).s) THEN "keep"
    ELSE SearchTags(query, Tail(tags))

\* One pass of the loop body of search_entries
SearchLine(line, query) ==
    IF NotJson(line) THEN "skip"
    ELSE LET entry == line[1]
         IN  IF entry.t # "object" THEN "AttributeError"
             ELSE LET msg == IF "msg" \in DOMAIN entry.v THEN entry.v["msg"] ELSE Str(<<>>)
                      tags == IF "tags" \in DOMAIN entry.v THEN entry.v["tags"] ELSE <<>>
                  IN  IF msg.k # "str" THEN "TypeError"
                      ELSE IF Search(query, msg.s) THEN "keep"
                      ELSE SearchTags(query, tags)

search_entries(file, query, limit) ==
    IF file = NoFile THEN Ok(<<>>)
    ELSE LET lines == FileLines(file[1], <<>>)
             outcomes == [i \in 1..Len(lines) |-> SearchLine(lines[i], query)]
             found == Loop(lines, outcomes, <<>>)
         IN  IF found.ok THEN Ok(Newest(found.value, limit)) ELSE found

\* _ensure_worklog(): touch() the file when it does not exist
_ensure_worklog(file) == IF file = NoFile THEN Some(<<>>) ELSE file

\* add_entry at the time now: [file |-> the file afterwards, ret |-> the entry]
add_entry(file, message, tags, now) ==
    LET base == [ts |-> AwareTs(now), msg |-> Str(message)]
        entry == IF tags # None /\ tags[1] # <<>>
                 THEN [ts |-> AwareTs(now), msg |-> Str(message),
                       tags |-> [i \in 1..Len(tags[1]) |-> Str(tags[1][i])]]
                 ELSE base
    IN  [ file |-> Some(_ensure_worklog(file)[1] \o <<JsonObject(entry), NL>>),
          ret |-> entry ]


----------------------------------------------------------------------------
(* config.py *)

\* JSON values, as json.loads gives them: None, bool, int, str, list, dict.
\* A dict is a function from its keys; a str is a sequence of tokens.
JNull == [t |-> "null"]
JBool(b) == [t |-> "bool", b |-> b]
JNum(n) == [t |-> "num", n |-> n]
JStr(s) == [t |-> "str", s |-> s]
JList(items) == [t |-> "list", items |-> items]
JMap(f) == [t |-> "map", v |-> f]
EmptyMap == JMap([k \in {} |-> JNull])

\* isinstance(x, dict)
IsMap(x) == x.t = "map"

\* key in m
Has(m, key) == key \in DOMAIN m.v

\* m[key] = value
Put(m, key, value) ==
    JMap([k \in DOMAIN m.v \cup {key} |-> IF k = key THEN value ELSE m.v[k]])

\* bool(x), as `if x:` takes it
Truthy(x) ==
    CASE x.t = "null" -> FALSE
      [] x.t = "bool" -> x.b
      [] x.t = "num" -> x.n # 0
      [] x.t = "str" -> x.s # <<>>
      [] x.t = "list" -> x.items # <<>>
      [] x.t = "map" -> DOMAIN x.v # {}

\* json.loads of a text of one token
JsonScalar(tok) ==
    CASE tok = "null" -> Some(JNull)
      [] tok = "true" -> Some(JBool(TRUE))
      [] tok = "false" -> Some(JBool(FALSE))
      [] tok = "0" -> Some(JNum(0))
      [] tok = "5" -> Some(JNum(5))
      [] OTHER -> None

\* A JSON text is a sequence of tokens: the punctuation { } [ ] , : and
\* the quote, the literals null, true, false and the numbers, white space,
\* and between quotes the characters and names of a string, a quote or
\* backslash among them written with a backslash before it.
IsSpace(tok) == tok \in {" ", "\n"}

RECURSIVE SkipSpace(_)
SkipSpace(toks) ==
    IF toks # <<>> /\ IsSpace(Head(toks)) THEN SkipSpace(Tail(toks)) ELSE toks

Unescape(tok) ==
    CASE tok = "\\\"" -> "\""
      [] tok = "\\\\" -> "\\"
      [] OTHER -> tok

\* The scanner of json.loads after an opening quote: <<string, rest>>, or
\* None when the string does not end
RECURSIVE ScanString(_, _)
ScanString(toks, acc) ==
    IF toks = <<>> THEN None
    ELSE IF Head(toks) = "\"" THEN <<acc, Tail(toks)>>
    ELSE IF Head(toks) = "\\" THEN None
    ELSE ScanString(Tail(toks), Append(acc, Unescape(Head(toks))))

\* The key of an object: the empty string, or a name of one token
KeyOf(string) == IF string = <<>> THEN "" ELSE string[1]

\* The decoder of json.loads at a value: <<value, rest>>, or None for
\* JSONDecodeError
RECURSIVE ScanValue(_)
RECURSIVE ScanMembers(_, _)
RECURSIVE ScanItems(_, _)
ScanValue(text) ==
    LET toks == SkipSpace(text)
    IN  IF toks = <<>> THEN None
        ELSE CASE Head(toks) = "\"" ->
                    LET r == ScanString(Tail(toks), <<>>)
                    IN  IF r = None THEN None ELSE <<JStr(r[1]), r[2]>>
               [] Head(toks) = "{" ->
                    LET t == SkipSpace(Tail(toks))
                    IN  IF t # <<>> /\ Head(t) = "}" THEN <<EmptyMap, Tail(t)>>
                        ELSE ScanMembers(t, EmptyMap)
               [] Head(toks) = "[" ->
                    LET t == SkipSpace(Tail(toks))
                    IN  IF t # <<>> /\ Head(t) = "]" THEN <<JList(<<>>), Tail(t)>>
                        ELSE ScanItems(t, <<>>)
               [] OTHER ->
                    IF JsonScalar(Head(toks)) = None THEN None
                    ELSE <<JsonScalar(Head(toks))[1], Tail(toks)>>

\* "key": value, then a comma and more, or the closing brace
ScanMembers(toks, members) ==
    IF toks = <<>> \/ Head(toks) # "\"" THEN None
    ELSE LET k == ScanString(Tail(toks), <<>>)
         IN  IF k = None \/ Len(k[1]) > 1 THEN None
             ELSE LET colon == SkipSpace(k[2])
                  IN  IF colon = <<>> \/ Head(colon) # ":" THEN None
                      ELSE LET v == ScanValue(Tail(colon))
                           IN  IF v = None THEN None
                               ELSE LET m == Put(members, KeyOf(k[1]), v[1])
                                        t == SkipSpace(v[2])
                                    IN  IF t = <<>> THEN None
                                        ELSE IF Head(t) = "}" THEN <<m, Tail(t)>>
                                        ELSE IF Head(t) = ","
                                        THEN ScanMembers(SkipSpace(Tail(t)), m)
                                        ELSE None

\* value, then a comma and more, or the closing bracket
ScanItems(toks, items) ==
    LET v == ScanValue(toks)
    IN  IF v = None THEN None
        ELSE LET t == SkipSpace(v[2])
             IN  IF t = <<>> THEN None
                 ELSE IF Head(t) = "]" THEN <<JList(Append(items, v[1])), Tail(t)>>
                 ELSE IF Head(t) = "," THEN ScanItems(Tail(t), Append(items, v[1]))
                 ELSE None

\* json.loads(text): Some(value), or None for JSONDecodeError
json_loads(text) ==
    LET r == ScanValue(text)
    IN  IF r = None THEN None
        ELSE IF SkipSpace(r[2]) # <<>> THEN None
        ELSE Some(r[1])

parse_value(value_str) ==
    LET parsed == json_loads(value_str)
    IN  IF parsed = None THEN JStr(value_str) ELSE parsed[1]

\* key.split("."): a name between dots is one token, or empty
RECURSIVE SplitDots(_, _)
SplitDots(key, part) ==
    IF key = <<>> THEN <<part>>
    ELSE IF Head(key) = "." THEN <<part>> \o SplitDots(Tail(key), "")
    ELSE SplitDots(Tail(key), Head(key))

\* set_nested(data, key, value) for the parts of the key: data afterwards
RECURSIVE SetParts(_, _, _)
SetParts(current, parts, value) ==
    IF Len(parts) = 1 THEN Put(current, parts[1], value)
    ELSE LET part == Head(parts)
             child == IF ~Has(current, part) THEN EmptyMap
                      ELSE IF ~IsMap(current.v[part]) THEN EmptyMap
                      ELSE current.v[part]
         IN  Put(current, part, SetParts(child, Tail(parts), value))

set_nested(data, key, value) == SetParts(data, SplitDots(key, ""), value)

\* get_nested(data, key) for the parts of the key: the value, or KeyError
RECURSIVE GetParts(_, _)
GetParts(current, parts) ==
    IF parts = <<>> THEN Ok(<<current>>)
    ELSE IF IsMap(current) /\ Has(current, Head(parts))
    THEN GetParts(current.v[Head(parts)], Tail(parts))
    ELSE Raise("KeyError")

get_nested(data, key) == GetParts(data, SplitDots(key, ""))

\* f"{prefix}.{key}" if prefix else key
FullKey(prefix, key) ==
    IF prefix # <<>> THEN prefix \o <<".">> \o (IF key = "" THEN <<>> ELSE <<key>>)
    ELSE (IF key = "" THEN <<>> ELSE <<key>>)

\* collect_keys(data, prefix): the keys listed, the items of the mapping
\* taken one after the other
RECURSIVE collect_keys(_, _)
RECURSIVE CollectItems(_, _, _)
collect_keys(data, prefix) == CollectItems(data, prefix, DOMAIN data.v)

CollectItems(data, prefix, keys) ==
    IF keys = {} THEN <<>>
    ELSE LET key == CHOOSE k \in keys : TRUE
             value == data.v[key]
             full_key == FullKey(prefix, key)
             listed == IF IsMap(value) THEN collect_keys(value, full_key)
                       ELSE <<full_key>>
         IN  listed \o CollectItems(data, prefix, keys \ {key})

\* An override that replaces the base key by key at the top level only
deep_merge_Shallow(base, override) ==
    JMap([k \in DOMAIN base.v \cup DOMAIN override.v |->
            IF Has(override, k) THEN override.v[k] ELSE base.v[k]])

RECURSIVE deep_merge(_, _)
deep_merge(base, override) ==
    JMap([key \in DOMAIN base.v \cup DOMAIN override.v |->
            IF ~Has(override, key) THEN base.v[key]
            ELSE IF Has(base, key) /\ IsMap(base.v[key]) /\ IsMap(override.v[key])
            THEN deep_merge(base.v[key], override.v[key])
            ELSE override.v[key]])

Escape(tok) ==
    CASE tok = "\"" -> "\\\""
      [] tok = "\\" -> "\\\\"
      [] OTHER -> tok

\* The encoder of json.dumps: the tokens of a value.  The members of a
\* mapping are written one after the other, a comma between them.
RECURSIVE Encode(_)
RECURSIVE EncodeMembers(_, _)
RECURSIVE EncodeItems(_)
Encode(value) ==
    CASE value.t = "null" -> <<"null">>
      [] value.t = "bool" -> IF value.b THEN <<"true">> ELSE <<"false">>
      [] value.t = "num" -> <<ToString(value.n)>>
      [] value.t = "str" ->
            <<"\"">> \o [i \in 1..Len(value.s) |-> Escape(value.s[i])] \o <<"\"">>
      [] value.t = "list" -> <<"[">> \o EncodeItems(value.items) \o <<"]">>
      [] value.t = "map" ->
            <<"{">> \o EncodeMembers(value.v, DOMAIN value.v) \o <<"}">>

EncodeMembers(f, keys) ==
    IF keys = {} THEN <<>>
    ELSE LET key == CHOOSE k \in keys : TRUE
             member == <<"\"">> \o (IF key = "" THEN <<>> ELSE <<key>>)
                          \o <<"\"", ":", " ">> \o Encode(f[key])
         IN  IF keys = {key} THEN member
             ELSE member \o <<",", "\n">> \o EncodeMembers(f, keys \ {key})

EncodeItems(items) ==
    IF items = <<>> THEN <<>>
    ELSE IF Len(items) = 1 THEN Encode(items[1])
    ELSE Encode(items[1]) \o <<",", "\n">> \o EncodeItems(Tail(items))

\* The text of a config file as the code writes it:
\* json.dumps(config, indent=2) + "\n"
json_dumps(config) == Encode(config) \o <<"\n">>

\* A text that is no JSON
GarbageText == <<"{", "oops">>

\* json.loads(config_path.read_text()), {} when the file is missing or is
\* no JSON
LoadConfig(file) ==
    IF file = NoFile THEN EmptyMap
    ELSE LET parsed == json_loads(file[1])
         IN  IF parsed = None THEN EmptyMap ELSE parsed[1]

load_user_config(user) == LoadConfig(user)

load_project_config(project) == LoadConfig(project)

load_merged_config(user, project) ==
    deep_merge(load_user_config(user), load_project_config(project))

\* A save that writes the user file whatever the scope is
save_config_UserPath(config, global_, user, project) ==
    [user |-> Some(json_dumps(config)), project |-> project]

\* save_config(config, global_), the directory being writable: the files
\* afterwards
save_config(config, global_, user, project) ==
    IF global_ THEN [user |-> Some(json_dumps(config)), project |-> project]
    ELSE [user |-> user, project |-> Some(json_dumps(config))]

\* Path(s): a path string is "/" tokens and names
Path(s) ==
    [abs |-> s # <<>> /\ Head(s) = "/", parts |-> SelectSeq(s, LAMBDA c : c # "/")]

\* Path.cwd()
Cwd == <<"w">>

\* The one symbolic link of the file system: /l -> /e
Readlink(p) == IF p = <<"l">> THEN <<"e">> ELSE p

\* path.resolve(): the canonical path, as the names from the root
resolve(path) == Readlink(IF path.abs THEN path.parts ELSE Cwd \o path.parts)

\* path.is_dir() when the directories of `existing` exist
is_dir(path, existing) == resolve(path) \in existing

\* path.parent
parent(path) ==
    [path EXCEPT !.parts = IF @ = <<>> THEN <<>> ELSE SubSeq(@, 1, Len(@) - 1)]

\* path / name
Div(path, name) == [path EXCEPT !.parts = Append(@, name)]

\* Path(__file__).parent.parent
PackageRoot == Path(<<"/", "r", "s", "k">>)

get_skill_root(env) ==
    IF env["SKILL_ROOT"] # None THEN Path(env["SKILL_ROOT"][1]) ELSE PackageRoot

\* key_map.get(repo_name, repo_name) of find_repo
RepoKey(repo_name) ==
    CASE repo_name = "rhdh-plugin-export-overlays" -> "overlay"
      [] repo_name = "rhdh-local" -> "local"
      [] repo_name = "rhdh-dynamic-plugin-factory" -> "factory"
      [] OTHER -> repo_name

\* Steps 3 and 4 of find_repo
FindAtOffsets(repo_name, env, existing) ==
    LET skill_root == get_skill_root(env)
        skill_repo_path == Div(Div(parent(skill_root), "repo"), repo_name)
        parent_repo_path == Div(Div(parent(parent(skill_root)), "repo"), repo_name)
    IN  IF is_dir(skill_repo_path, existing) THEN Ok(Some(resolve(skill_repo_path)))
        ELSE IF is_dir(parent_repo_path, existing)
        THEN Ok(Some(resolve(parent_repo_path)))
        ELSE Ok(None)

\* Step 2 of find_repo and what follows it
FindInConfig(repo_name, env, user, project, existing) ==
    LET config == load_merged_config(user, project)
        config_key == RepoKey(repo_name)
        repos == IF Has(config, "repos") THEN config.v["repos"] ELSE EmptyMap
    IN  IF ~IsMap(repos) THEN Raise("AttributeError")
        ELSE LET config_path == IF Has(repos, config_key) THEN repos.v[config_key]
                                ELSE JNull
             IN  IF ~Truthy(config_path)
                 THEN FindAtOffsets(repo_name, env, existing)
                 ELSE IF config_path.t # "str" THEN Raise("TypeError")
                 ELSE IF is_dir(Path(config_path.s), existing)
                 THEN Ok(Some(resolve(Path(config_path.s))))
                 ELSE FindAtOffsets(repo_name, env, existing)

\* find_repo: Ok(Some(path)), Ok(None), or the exception raised
find_repo(repo_name, env_var, env, user, project, existing) ==
    LET env_value == env[env_var]
    IN  IF /\ env_value # None
           /\ env_value[1] # <<>>
           /\ is_dir(Path(env_value[1]), existing)
        THEN Ok(Some(resolve(Path(env_value[1]))))
        ELSE FindInConfig(repo_name, env, user, project, existing)

get_overlay_repo(env, user, project, existing) ==
    find_repo("rhdh-plugin-export-overlays", "RHDH_OVERLAY_REPO", env, user,
              project, existing)

\* key_map.get(key, key) of _config_set
SetKey(key) ==
    CASE key = <<"overlay">> -> <<"repos", ".", "overlay">>
      [] key = <<"local">> -> <<"repos", ".", "local">>
      [] key = <<"factory">> -> <<"repos", ".", "factory">>
      [] OTHER -> key

\* _config_set(key, value, global_): the files afterwards and the result,
\* Ok(<<data, next_steps>>) or the message of the failure
_config_set(key, value, global_, user, project) ==
    IF key = None \/ key = Some(<<>>)
    THEN [user |-> user, project |-> project, ret |-> Raise("Key is required")]
    ELSE IF value = None
    THEN [user |-> user, project |-> project, ret |-> Raise("Value is required")]
    ELSE LET full_key == SetKey(key[1])
             config == IF global_ THEN load_user_config(user)
                       ELSE load_project_config(project)
             parsed_value == parse_value(value[1])
             saved == save_config(set_nested(config, full_key, parsed_value),
                                  global_, user, project)
         IN  IF ~IsMap(config)
             \* `part not in current` or `current[part] = ...` of set_nested on
             \* a list, a string, a number, a boolean or None
             THEN [user |-> user, project |-> project, ret |-> Raise("TypeError")]
             ELSE [ user |-> saved.user, project |-> saved.project,
                    ret |-> Ok(<< [ key |-> full_key, value |-> parsed_value,
                                    scope |-> IF global_ THEN "user" ELSE "project" ],
                                  <<"rhdh config show">> >>) ]

\* _config_get(key): Ok(<<data, next_steps>>), the message of the failure,
\* or the exception that load_merged_config raises when a file holds JSON
\* that is no mapping
_config_get(key, user, project) ==
    LET base == load_user_config(user)
        override == load_project_config(project)
    IN  IF key = None \/ key = Some(<<>>) THEN Raise("Key is required")
        \* override.items()
        ELSE IF ~IsMap(override) THEN Raise("AttributeError")
        ELSE IF ~IsMap(base)
        \* base.copy(), result[key] = value, `if not config`, get_nested
        THEN IF base.t # "list" THEN Raise("AttributeError")
             ELSE IF override # EmptyMap THEN Raise("TypeError")
             ELSE IF base.items = <<>> THEN Raise("No config found")
             ELSE Raise("Key not found")
        ELSE LET config == deep_merge(base, override)
                 got == get_nested(config, key[1])
             IN  IF config = EmptyMap THEN Raise("No config found")
                 ELSE IF got.ok
                 THEN Ok(<< [key |-> key[1], value |-> got.value[1]], <<>> >>)
                 ELSE Raise("Key not found")

\* get_default_config()
get_default_config ==
    JMap([k \in {"repos"} |->
            JMap([r \in {"overlay", "local", "factory"} |-> JStr(<<>>)])])

\* str(path) of an absolute path given by its names from the root
str(parts) ==
    IF parts = <<>> THEN <<"/">>
    ELSE [i \in 1..(2 * Len(parts)) |-> IF i % 2 = 1 THEN "/" ELSE parts[i \div 2]]

\* The directory names _config_init looks for
InitRepoName(config_key) ==
    CASE config_key = "overlay" -> "rhdh-plugin-export-overlays"
      [] config_key = "local" -> "rhdh-local"
      [] config_key = "factory" -> "rhdh-dynamic-plugin-factory"

\* The configuration _config_init writes: the defaults, and for the project
\* scope the directories found at skill_root.parent / "repo"
InitConfig(global_, env, existing) ==
    IF global_ THEN get_default_config
    ELSE LET skill_root == get_skill_root(env)
             found(config_key) ==
                 Div(Div(parent(skill_root), "repo"), InitRepoName(config_key))
         IN  JMap([k \in {"repos"} |->
                     JMap([r \in {"overlay", "local", "factory"} |->
                             IF is_dir(found(r), existing)
                             THEN JStr(str(resolve(found(r))))
                             ELSE JStr(<<>>)])])

\* An init that detects the directories for the user scope as well
_config_init_DetectsForUser(force, global_, env, user, project, existing) ==
    LET config_path == IF global_ THEN user ELSE project
        config == InitConfig(FALSE, env, existing)
        written == Some(json_dumps(config))
    IN  IF config_path # NoFile /\ ~force
        THEN [user |-> user, project |-> project,
              ret |-> Raise("Config already exists")]
        ELSE [ user |-> IF global_ THEN written ELSE user,
               project |-> IF global_ THEN project ELSE written,
               ret |-> Ok(<< [ scope |-> IF global_ THEN "user" ELSE "project",
                               config |-> config ],
                             <<"rhdh config show", "rhdh doctor">> >>) ]

\* _config_init(force, global_), the directory being writable: the files
\* afterwards and the result, Ok(<<data, next_steps>>) or the message of
\* the failure
_config_init(force, global_, env, user, project, existing) ==
    LET config_path == IF global_ THEN user ELSE project
        config == InitConfig(global_, env, existing)
        written == Some(json_dumps(config))
    IN  IF config_path # NoFile /\ ~force
        THEN [user |-> user, project |-> project,
              ret |-> Raise("Config already exists")]
        ELSE [ user |-> IF global_ THEN written ELSE user,
               project |-> IF global_ THEN project ELSE written,
               ret |-> Ok(<< [ scope |-> IF global_ THEN "user" ELSE "project",
                               config |-> config ],
                             <<"rhdh config show", "rhdh doctor">> >>) ]

----------------------------------------------------------------------------
(* TodoStore: the calls a run makes, and what they are called with *)

\* A document with no separator, a heading and a text line
TextOnlyFile ==
    << <<"# RHDH Plugin Todos">>,
       <<>>,
       <<"Track uncertainties, follow-ups, and action items from plugin work.">>,
       <<>> >>

\* A document written by hand, in the format of the template: a pending
\* section without notes and a done section (as in tests/unit/test_todo.py)
HandWrittenFile ==
    << <<"# RHDH Plugin Todos">>,
       <<>>,
       <<"---">>,
       <<>>,
       <<"## [ ]", " ", "z">>,
       <<"**Created:**", " ", "2025-01-01">>,
       <<>>,
       <<"Description here.">>,
       <<>>,
       <<"---">>,
       <<>>,
       <<"## [x]", " ", "q", " ", "z">>,
       <<"**Created:**", " ", "2025-01-01">>,
       <<"**Completed:**", " ", "2025-01-02">>,
       <<>>,
       <<"Done!">>,
       <<>>,
       <<"---">>,
       <<>> >>

\* TODO.md before the first call: missing, empty, or one of the above
InitialFiles == {NoFile, << <<>> >>, TextOnlyFile, HandWrittenFile}

\* Titles: plain ones, and the empty title, one with a comment marker, one
\* with a newline, one that holds the text of an unchecked box
PlainTitles == {<<"q">>, <<"Q", " ", "z">>}
Titles ==
    PlainTitles \cup
    {<<>>, <<"q", "<!--">>, <<"q", "\n", "z">>, <<"z", " ", "## [ ]">>}

\* What add_todo is called with: every title without a context, one with
AddTodoArgs == (Titles \X {None}) \cup {<<<<"q">>, Some(<<"z">>)>>}

\* Slugs: of a title, and one that matches no item
Slugs == {<<"q">>, <<"z">>, <<"z", "z">>}

Notes == {<<"z", " ", "q">>}

\* The parts of the state that a run of one store leaves alone
TodoIdle == todo_file = NoFile /\ before = NoFile /\ n_adds = 0 /\ n_notes = 0

WorklogIdle == worklog_file = NoFile /\ clock = 0 /\ appended = <<>>

\* No invocations run side by side
ProcIdle == pc = <<>> /\ local = <<>>

ConfigIdle ==
    /\ user_config = NoFile
    /\ project_config = NoFile
    /\ environ = [RHDH_OVERLAY_REPO |-> None, SKILL_ROOT |-> None]
    /\ dirs = {}
    /\ n_sets = 0

Call(op, title, context, slug, note) ==
    [op |-> op, title |-> title, context |-> context, slug |-> slug, note |-> note]

Init ==
    /\ todo_file \in InitialFiles
    /\ before = todo_file
    /\ last = Call("start", <<>>, None, <<>>, <<>>)
    /\ ret = None
    /\ n_adds = 0
    /\ n_notes = 0
    /\ WorklogIdle
    /\ ConfigIdle
    /\ ProcIdle

ListTodos ==
    /\ before' = todo_file
    /\ todo_file' = _ensure_todo_file(todo_file)
    /\ last' = Call("list_todos", <<>>, None, <<>>, <<>>)
    /\ ret' = list_todos(todo_file)
    /\ UNCHANGED <<n_adds, n_notes, worklog_vars, config_vars, proc_vars>>

AddTodo ==
    /\ before' = todo_file
    /\ n_adds < MaxAdds
    /\ \E args \in AddTodoArgs :
          LET r == add_todo(todo_file, args[1], args[2])
          IN  /\ todo_file' = r.file
              /\ ret' = r.ret
              /\ last' = Call("add_todo", args[1], args[2], <<>>, <<>>)
    /\ n_adds' = n_adds + 1
    /\ UNCHANGED <<n_notes, worklog_vars, config_vars, proc_vars>>

GetTodo ==
    /\ before' = todo_file
    /\ todo_file' = _ensure_todo_file(todo_file)
    /\ \E slug \in Slugs :
          /\ ret' = get_todo(_ensure_todo_file(todo_file), slug)
          /\ last' = Call("get_todo", <<>>, None, slug, <<>>)
    /\ UNCHANGED <<n_adds, n_notes, worklog_vars, config_vars, proc_vars>>

MarkDone ==
    /\ before' = todo_file
    /\ \E slug \in Slugs :
          LET r == mark_done(todo_file, slug)
          IN  /\ todo_file' = r.file
              /\ ret' = r.ret
              /\ last' = Call("mark_done", <<>>, None, slug, <<>>)
    /\ UNCHANGED <<n_adds, n_notes, worklog_vars, config_vars, proc_vars>>

AddNote ==
    /\ before' = todo_file
    /\ n_notes < MaxNotes
    /\ \E slug \in Slugs, note \in Notes :
          LET r == add_note(todo_file, slug, note)
          IN  /\ todo_file' = r.file
              /\ ret' = r.ret
              /\ last' = Call("add_note", <<>>, None, slug, note)
    /\ n_notes' = n_notes + 1
    /\ UNCHANGED <<n_adds, worklog_vars, config_vars, proc_vars>>

Next == ListTodos \/ GetTodo \/ AddTodo \/ MarkDone \/ AddNote

Spec == Init /\ [][Next]_vars

----------------------------------------------------------------------------
(* TodoStore: properties *)

\* An item without its line offsets
View(item) ==
    [ title |-> item.title, done |-> item.done, created |-> item.created,
      completed |-> item.completed, context |-> item.context,
      raw_content |-> item.raw_content ]

Views(items) == [i \in 1..Len(items) |-> View(items[i])]

RemoveAt(s, i) == SubSeq(s, 1, i - 1) \o SubSeq(s, i + 1, Len(s))

\* The lines of `block` put before line i (0-indexed) of `lines`
InsertBlock(lines, i, block) ==
    SubSeq(lines, 1, i) \o block \o SubSeq(lines, i + 1, Len(lines))

\* The content of TODO.md that the call made last began with
Before == _ensure_todo_file(before)

\* The item the call made last was resolved to, in that content
Resolved == get_todo(Before, last.slug)

HasNotesLine(item) ==
    \E i \in 1..Len(item.raw_content) : Strip(item.raw_content[i]) = <<"### Notes">>

CompletedLines(item) ==
    {i \in 1..Len(item.raw_content) :
        StartsWith(item.raw_content[i], "**Completed:**")}

\* The place in list_todos() of the item that starts at line_start; 0 if none
PlaceOf(items, line_start) ==
    IF \E i \in 1..Len(items) : items[i].line_start = line_start
    THEN CHOOSE i \in 1..Len(items) : items[i].line_start = line_start
    ELSE 0

\* C2: add_note on a resolved section that has no `### Notes` line and is
\* closed by a separator puts a `### Notes` heading and the note line
\* `- <today>: <text>` right before that separator, and show_raw() then
\* contains the text.
C2_NoteInsertedBeforeSeparator ==
    ( /\ last.op = "add_note"
      /\ Resolved # None
      /\ ~HasNotesLine(Resolved[1])
      /\ Resolved[1].line_end < Len(Before)
      /\ Strip(Before[Resolved[1].line_end + 1]) = <<"---">> )
    => LET note_line == <<"-", " ", Today, ":", " ">> \o last.note
           at == Resolved[1].line_end
       IN  /\ \/ todo_file =
                    InsertBlock(Before, at, << <<"### Notes">>, note_line >>)
              \/ todo_file =
                    InsertBlock(Before, at, << <<"### Notes">>, note_line, <<>> >>)
           /\ IsSubstring(last.note, show_raw(todo_file))

\* C3: add_todo(t) followed by list_todos() gives exactly one more item than
\* before, and the new item is not done and has the title t.
C3_AddTodoListsOneNewItem ==
    last.op = "add_todo"
    => LET old == list_todos(before)
           new == list_todos(todo_file)
       IN  /\ Len(new) = Len(old) + 1
           /\ \E i \in 1..Len(new) :
                 /\ new[i].title = last.title
                 /\ ~new[i].done
                 /\ Views(RemoveAt(new, i)) = Views(old)

\* C4: after an add_todo (of a plain title), on any starting document, the
\* new todo is the first item of list_todos() and the older items follow it
\* in their earlier order.
C4_NewTodoIsListedFirst ==
    (last.op = "add_todo" /\ last.title \in PlainTitles)
    => LET old == list_todos(before)
           new == list_todos(todo_file)
       IN  /\ new # <<>>
           /\ new[1].title = last.title
           /\ Views(Tail(new)) = Views(old)

\* C5: mark_done on a resolved item that is not done checks the box of its
\* header and puts `**Completed:** <today>` right after the section's
\* `**Created:**` line; list_todos() then reports the item done, with the
\* completed date that mark_done returned.
C5_MarkDoneCompletesItem ==
    (last.op = "mark_done" /\ Resolved # None /\ ~Resolved[1].done)
    => LET todo == Resolved[1]
           old == list_todos(before)
           new == list_todos(todo_file)
           k == PlaceOf(old, todo.line_start)
       IN  /\ ret # None
           /\ ret[1].done
           /\ ret[1].completed = Some(<<Today>>)
           /\ Before[todo.line_start + 1][1] = "## [ ]"
           /\ todo_file[todo.line_start + 1][1] = "## [x]"
           /\ Len(todo_file) = Len(Before) + 1
           /\ \E c \in (todo.line_start + 1)..(todo.line_end - 1) :
                 /\ StartsWith(Before[c + 1], "**Created:**")
                 /\ todo_file[c + 1] = Before[c + 1]
                 /\ todo_file[c + 2] = <<"**Completed:**", " ", Today>>
           /\ k > 0
           /\ Len(new) = Len(old)
           /\ new[k].done
           /\ new[k].completed # None
           /\ new[k].completed = ret[1].completed

\* A mark_done call has just completed an item that was not done
C5_Witness ==
    /\ last.op = "mark_done"
    /\ ret # None
    /\ ret[1].raw_content[1][1] = "## [ ]"
    /\ ret[1].done
    /\ ret[1].completed = Some(<<Today>>)

\* C6: mark_done on an item that is already done returns it and leaves the
\* document as it is; after every mark_done call that resolves an item, the
\* item is done and its section holds exactly one `**Completed:**` line.
C6_MarkDoneIdempotent ==
    (last.op = "mark_done" /\ Resolved # None)
    => LET todo == Resolved[1]
           new == list_todos(todo_file)
           k == PlaceOf(list_todos(before), todo.line_start)
       IN  /\ todo.done => (todo_file = before /\ ret = Resolved)
           /\ k > 0 /\ k <= Len(new)
           /\ new[k].done
           /\ Cardinality(CompletedLines(new[k])) = 1

\* A mark_done call has just been made on an item that an earlier mark_done
\* call had completed
C6_Witness ==
    /\ last.op = "mark_done"
    /\ ret # None
    /\ ret[1].raw_content[1][1] = "## [x]"
    /\ ret[1].completed = Some(<<Today>>)

\* str.startswith on slugs
SlugStartsWith(slug, prefix) ==
    Len(slug) >= Len(prefix) /\ SubSeq(slug, 1, Len(prefix)) = prefix

\* The item that the slug of the call made last names in the content the
\* call began with: the first whose slug equals it, else the first whose
\* slug starts with it
Named ==
    LET items == _parse_todos(Before)
        exact == SelectSeq(items, LAMBDA t : t.slug = last.slug)
        partial == SelectSeq(items, LAMBDA t : SlugStartsWith(t.slug, last.slug))
    IN  IF exact # <<>> THEN Some(exact[1])
        ELSE IF partial # <<>> THEN Some(partial[1])
        ELSE None

\* The first line (1-indexed) at which two documents differ; 0 if none
FirstDiff(old, new) ==
    LET D == {i \in 1..Len(new) : i > Len(old) \/ old[i] # new[i]}
    IN  IF D = {} THEN 0 ELSE CHOOSE i \in D : \A j \in D : i <= j

\* C11: get_todo returns the first item in document order whose slug equals
\* the argument, else the first whose slug starts with it, else not-found;
\* mark_done and add_note act on that same item: they return not-found
\* exactly when there is none, and the first line they change is the header
\* of that item (mark_done) or a line of its section (add_note).
C11_ExactThenPrefix ==
    /\ last.op = "get_todo" => ret = Named
    /\ last.op \in {"mark_done", "add_note"}
       => /\ (ret = None) = (Named = None)
          /\ ret # None => ret[1].line_start = Named[1].line_start
          /\ Named = None => todo_file = Before
    /\ (last.op = "mark_done" /\ Named # None /\ ~Named[1].done)
       => FirstDiff(Before, todo_file) = Named[1].line_start + 1
    /\ (last.op = "add_note" /\ Named # None /\ todo_file # Before)
       => /\ FirstDiff(Before, todo_file) > Named[1].line_start + 1
          /\ FirstDiff(Before, todo_file) <= Named[1].line_end + 1

\* A get_todo call has returned the item whose slug equals the argument,
\* passing over an earlier item whose slug only starts with it
C11_Witness ==
    /\ last.op = "get_todo"
    /\ ret # None
    /\ ret[1].slug = last.slug
    /\ LET items == _parse_todos(Before)
       IN  /\ items[1].slug # last.slug
           /\ SlugStartsWith(items[1].slug, last.slug)


\* `new` is `old` with lines put in before line i (0-indexed) of `old`,
\* and nothing else changed
InsertedAt(old, new, i) ==
    LET n == Len(new) - Len(old)
    IN  /\ n >= 0
        /\ SubSeq(new, 1, i) = SubSeq(old, 1, i)
        /\ SubSeq(new, i + n + 1, Len(new)) = SubSeq(old, i + 1, Len(old))

\* C12: add_todo only inserts lines; mark_done changes only the header line
\* of the item it resolved and inserts one line inside that item's section;
\* add_note only inserts lines inside that item's section.  Every other
\* line of the document is kept, in its order.
C12_OtherLinesKept ==
    /\ last.op = "add_todo"
       => /\ Len(todo_file) > Len(Before)
          /\ \E i \in 0..Len(Before) : InsertedAt(Before, todo_file, i)
    /\ (last.op = "mark_done" /\ Resolved # None /\ ~Resolved[1].done)
       => LET todo == Resolved[1]
              flipped == [Before EXCEPT ![todo.line_start + 1] =
                              todo_file[todo.line_start + 1]]
          IN  /\ Len(todo_file) = Len(Before) + 1
              /\ \E i \in (todo.line_start + 1)..Min(todo.line_end, Len(Before)) :
                    InsertedAt(flipped, todo_file, i)
    /\ (last.op = "mark_done" /\ Resolved # None /\ Resolved[1].done)
       => todo_file = Before
    /\ (last.op = "add_note" /\ Resolved # None)
       => \E i \in (Resolved[1].line_start + 1)..Min(Resolved[1].line_end, Len(Before)) :
             InsertedAt(Before, todo_file, i)

\* A mark_done or add_note call has changed a document that has a preamble
\* and at least two items
C12_Witness ==
    /\ last.op \in {"mark_done", "add_note"}
    /\ ret # None
    /\ todo_file # Before
    /\ Len(_parse_todos(Before)) >= 2
    /\ _parse_todos(Before)[1].line_start > 0


\* No item of the content the call began with has a slug that equals the
\* slug of the call or starts with it
NoSlugMatches ==
    \A i \in 1..Len(_parse_todos(Before)) :
        ~SlugStartsWith(_parse_todos(Before)[i].slug, last.slug)

\* C13: when no item's slug equals or starts with the given slug, get_todo,
\* mark_done and add_note return not-found and leave the content of the
\* todo document as it was.
C13_NotFoundLeavesDocument ==
    (last.op \in {"get_todo", "mark_done", "add_note"} /\ NoSlugMatches)
    => /\ ret = None
       /\ todo_file = Before

\* A mark_done or add_note call found no item in a document that has items
C13_Witness ==
    /\ last.op \in {"mark_done", "add_note"}
    /\ ret = None
    /\ _parse_todos(Before) # <<>>
    /\ NoSlugMatches


----------------------------------------------------------------------------
(* TodoStore: runs that add notes *)

\* Titles: a plain one, and one that holds the text of an unchecked box
NoteTitles == {<<"q">>, <<"z", " ", "## [ ]">>}

\* Notes: a plain one, ones with a comment marker, one with a newline and
\* the header of a todo after it
NoteTexts ==
    { <<"z">>, <<"q", "<!--">>, <<"-->">>, <<"q", "\n", "## [ ]", " ", "z">> }

NoteSlugs == {<<"q">>, <<"z">>}

NotesInit ==
    /\ todo_file \in {NoFile, HandWrittenFile}
    /\ before = todo_file
    /\ last = Call("start", <<>>, None, <<>>, <<>>)
    /\ ret = None
    /\ n_adds = 0
    /\ n_notes = 0
    /\ WorklogIdle
    /\ ConfigIdle
    /\ ProcIdle

NotesAddTodo ==
    /\ before' = todo_file
    /\ n_adds < NoteAdds
    /\ \E title \in NoteTitles :
          LET r == add_todo(todo_file, title, None)
          IN  /\ todo_file' = r.file
              /\ ret' = r.ret
              /\ last' = Call("add_todo", title, None, <<>>, <<>>)
    /\ n_adds' = n_adds + 1
    /\ UNCHANGED <<n_notes, worklog_vars, config_vars, proc_vars>>

NotesMarkDone ==
    /\ before' = todo_file
    /\ \E slug \in NoteSlugs :
          LET r == mark_done(todo_file, slug)
          IN  /\ todo_file' = r.file
              /\ ret' = r.ret
              /\ last' = Call("mark_done", <<>>, None, slug, <<>>)
    /\ UNCHANGED <<n_adds, n_notes, worklog_vars, config_vars, proc_vars>>

NotesAddNote ==
    /\ before' = todo_file
    /\ n_notes < NoteCalls
    /\ \E slug \in NoteSlugs, note \in NoteTexts :
          LET r == add_note(todo_file, slug, note)
          IN  /\ todo_file' = r.file
              /\ ret' = r.ret
              /\ last' = Call("add_note", <<>>, None, slug, note)
    /\ n_notes' = n_notes + 1
    /\ UNCHANGED <<n_adds, worklog_vars, config_vars, proc_vars>>

NotesNext == NotesAddTodo \/ NotesMarkDone \/ NotesAddNote

NotesSpec == NotesInit /\ [][NotesNext]_vars

\* The line (0-indexed) of the first `### Notes` heading of the section of
\* an item; -1 if it has none
NotesHeading(lines, item) ==
    LET found == {i \in item.line_start..(Min(item.line_end, Len(lines)) - 1) :
                      Strip(lines[i + 1]) = <<"### Notes">>}
    IN  IF found = {} THEN -1 ELSE CHOOSE i \in found : \A j \in found : i <= j

\* The lines a note makes in the document
NoteLines(note) == SplitLines(<< <<"-", " ", Today, ":", " ">> \o note >>)

\* C24: two add_note calls, one right after the other, on the same item
\* whose section has a `### Notes` heading: the note of the later call is
\* on the line right after the heading, and the note of the earlier call
\* follows it.
C24_LaterNoteAboveEarlier ==
    [][ LET first == get_todo(Before, last.slug)
            second == get_todo(todo_file, last'.slug)
        IN  ( /\ last.op = "add_note"
              /\ last'.op = "add_note"
              /\ first # None
              /\ second # None
              /\ first[1].line_start = second[1].line_start
              /\ NotesHeading(Before, first[1]) >= 0 )
            => LET h == NotesHeading(todo_file, second[1])
                   later == NoteLines(last'.note)
                   earlier == NoteLines(last.note)
                   new == todo_file'
               IN  /\ h >= 0
                   /\ Len(new) >= h + 1 + Len(later) + Len(earlier)
                   /\ SubSeq(new, h + 2, h + 1 + Len(later)) = later
                   /\ SubSeq(new, h + 2 + Len(later),
                             h + 1 + Len(later) + Len(earlier)) = earlier
      ]_vars

\* After two add_note calls a heading is followed by the note of the last
\* call and then by another note, that of the call before
C24_Witness ==
    /\ last.op = "add_note"
    /\ n_notes = 2
    /\ ret # None
    /\ \E i \in 1..(Len(todo_file) - 2) :
          /\ Strip(todo_file[i]) = <<"### Notes">>
          /\ todo_file[i + 1] = <<"-", " ", Today, ":", " ">> \o last.note
          /\ todo_file[i + 2] \in {<<"-", " ", Today, ":", " ">> \o n : n \in NoteTexts}
          /\ todo_file[i + 2] # todo_file[i + 1]

\* C28: mark_done and add_note leave the number, the titles and the order
\* of the items of list_todos() as they were, for every note text; only
\* the item the call resolved may differ, and only in its done flag, its
\* completed date and the body of its section.
C28_ItemsKept ==
    last.op \in {"mark_done", "add_note"}
    => LET old == list_todos(before)
           new == list_todos(todo_file)
           place == IF Resolved = None THEN 0
                    ELSE PlaceOf(old, Resolved[1].line_start)
       IN  /\ Len(new) = Len(old)
           /\ \A i \in 1..Len(old) :
                 /\ new[i].title = old[i].title
                 /\ new[i].created = old[i].created
                 /\ new[i].context = old[i].context
                 /\ i # place => View(new[i]) = View(old[i])

----------------------------------------------------------------------------
(* TodoStore: _parse_todos as a function of the document *)

\* The lines of the documents: headers of a pending and of a done item, a
\* header with the end marker of a comment in its title, a separator, the
\* two markers of a comment, and a line of text
DocLines ==
    { <<"## [ ]", " ", "q">>, <<"## [x]", " ", "z">>,
      <<"## [ ]", " ", "q", "-->">>,
      <<"---">>, <<"<!--", " ", "z">>, <<"-->">>, <<"z">> }

ParseDocuments == UNION {[1..n -> DocLines] : n \in 0..MaxDocLines}

ParseCall(op, lines) == [op |-> op, lines |-> lines]

ParseInit ==
    /\ last \in {ParseCall("document", lines) : lines \in ParseDocuments}
    /\ ret = Ok(<<>>)
    /\ TodoIdle
    /\ WorklogIdle
    /\ ConfigIdle
    /\ ProcIdle

ParseTodos ==
    /\ last.op = "document"
    /\ ret' = Ok(_parse_todos(last.lines))
    /\ last' = ParseCall("_parse_todos", last.lines)
    /\ UNCHANGED <<todo_vars, worklog_vars, config_vars, proc_vars>>

ParseNext == ParseTodos

ParseSpec == ParseInit /\ [][ParseNext]_vars

\* Line i (1-indexed) lies in a comment block: a line at or before it has
\* the start marker, and no line from that one up to the line before i has
\* the end marker
InBlock(lines, i) ==
    \E j \in 1..i :
        /\ Contains(lines[j], "<!--")
        /\ \A k \in j..(i - 1) : ~Contains(lines[k], "-->")

\* The header lines outside every comment block
OpenHeaders(lines) ==
    {i \in 1..Len(lines) : HeaderMatches(lines[i]) /\ ~InBlock(lines, i)}

\* The separator lines outside every comment block
OpenSeparators(lines) ==
    {i \in 1..Len(lines) : Strip(lines[i]) = <<"---">> /\ ~InBlock(lines, i)}

\* The end (exclusive, 0-indexed) of the section whose header is line i
SectionEnd(lines, i) ==
    LET stops == {k \in OpenHeaders(lines) \cup OpenSeparators(lines) : k > i}
    IN  IF stops = {} THEN Len(lines)
        ELSE (CHOOSE k \in stops : \A m \in stops : k <= m) - 1

\* C27: _parse_todos gives one item for each header line outside a comment
\* block, in the order of the document; the section of an item starts at
\* its header line and ends before the first separator or header after it,
\* or at the end of the document; a header line in a comment block gives
\* no item.
C27_OneItemPerOpenHeader ==
    last.op = "_parse_todos"
    => LET lines == last.lines
           todos == ret.value
           headers == OpenHeaders(lines)
       IN  /\ Len(todos) = Cardinality(headers)
           /\ \A n \in 1..Len(todos) :
                 /\ todos[n].line_start + 1 \in headers
                 /\ Cardinality({h \in headers : h <= todos[n].line_start + 1}) = n
                 /\ todos[n].line_end = SectionEnd(lines, todos[n].line_start + 1)
                 /\ todos[n].title = Strip(SubSeq(lines[todos[n].line_start + 1], 3,
                                                  Len(lines[todos[n].line_start + 1])))

----------------------------------------------------------------------------
(* WorklogStore: the calls a run makes, and what they are called with *)

\* An entry that an earlier run of add_entry wrote
OldEntry == JsonObject([ts |-> AwareTs(0), msg |-> Str(<<"z">>)])

\* Lines that are not entries: text that is no JSON, JSON values that are no
\* objects, objects without `msg` or without `ts`, with a `ts` that is no
\* timestamp, with a `msg` that is no string
MalformedLines ==
    { Garbage, JsonNumber, JsonArray,
      JsonObject([ts |-> AwareTs(0)]),
      JsonObject([msg |-> Str(<<"q">>)]),
      JsonObject([ts |-> BadTs, msg |-> Str(<<"q">>)]),
      JsonObject([ts |-> AwareTs(0), msg |-> NotStr]) }

\* worklog.jsonl before the first call: missing, empty, an entry whose line
\* has no newline at its end, or an entry and a malformed line
InitialWorklogs ==
    {NoFile, Some(<<>>), Some(<<OldEntry>>)}
    \cup {Some(<<OldEntry, NL, x, NL>>) : x \in MalformedLines}

\* What add_entry is called with: <<message, tags>>
AddEntryArgs ==
    { <<<<"q">>, None>>, <<<<"Q", "z">>, Some(<<>>)>>, <<<<"z">>, Some(<< <<"q">> >>)>> }

Limits == {None} \cup {Some(k) : k \in 0..MaxLimit}

\* since: not given, a bare date, a full timestamp with and without an
\* offset, a string that is no date
Sinces ==
    { None, Some([k |-> "date", t |-> 1]), Some([k |-> "aware", t |-> 1]),
      Some([k |-> "naive", t |-> 1]), Some([k |-> "bad", t |-> 0]) }

Queries == {<<"q">>, <<"z", "z">>}

WCall(op, message, tags, limit, since, query) ==
    [ op |-> op, message |-> message, tags |-> tags, limit |-> limit,
      since |-> since, query |-> query ]

WorklogInit ==
    /\ worklog_file \in InitialWorklogs
    /\ clock = 1
    /\ appended = <<>>
    /\ last = WCall("start", <<>>, None, None, None, <<>>)
    /\ ret = Ok(<<>>)
    /\ TodoIdle
    /\ ConfigIdle
    /\ ProcIdle

AddEntry ==
    /\ Len(appended) < MaxEntries
    /\ \E args \in AddEntryArgs :
          LET r == add_entry(worklog_file, args[1], args[2], clock)
          IN  /\ worklog_file' = r.file
              /\ ret' = Ok(<<r.ret>>)
              /\ appended' = Append(appended, r.ret)
              /\ last' = WCall("add_entry", args[1], args[2], None, None, <<>>)
    /\ clock' = clock + 1
    /\ UNCHANGED <<todo_vars, config_vars, proc_vars>>

ReadEntries ==
    /\ \E limit \in Limits, since \in Sinces :
          /\ ret' = read_entries(worklog_file, limit, since)
          /\ last' = WCall("read_entries", <<>>, None, limit, since, <<>>)
    /\ UNCHANGED <<worklog_vars, todo_vars, config_vars, proc_vars>>

SearchEntries ==
    /\ \E query \in Queries, limit \in Limits :
          /\ ret' = search_entries(worklog_file, query, limit)
          /\ last' = WCall("search_entries", <<>>, None, limit, None, query)
    /\ UNCHANGED <<worklog_vars, todo_vars, config_vars, proc_vars>>

WorklogNext == AddEntry \/ ReadEntries \/ SearchEntries

WorklogSpec == WorklogInit /\ [][WorklogNext]_vars

----------------------------------------------------------------------------
(* WorklogStore: properties *)

\* The JSON values on the lines of the file, oldest first
RECURSIVE Chunks(_)
Chunks(content) ==
    IF content = <<>> THEN <<>>
    ELSE (IF Head(content) = NL THEN <<>> ELSE <<Head(content)>>)
         \o Chunks(Tail(content))

FileChunks == IF worklog_file = NoFile THEN <<>> ELSE Chunks(worklog_file[1])

\* A line that parses as a JSON object with a `msg` field
HasMsg(chunk) == chunk.t = "object" /\ "msg" \in DOMAIN chunk.v

\* An entry as add_entry writes it
WellFormed(chunk) ==
    /\ HasMsg(chunk)
    /\ chunk.v["msg"].k = "str"
    /\ "ts" \in DOMAIN chunk.v
    /\ chunk.v["ts"].k = "aware"

Elements(s) == {s[i] : i \in 1..Len(s)}

\* C7: read_entries and search_entries do not fail on any line; they return
\* no line that is not a JSON object with a `msg` field, and a read_entries
\* without limit and since returns every well-formed entry of the file.
C7_MalformedLinesSkipped ==
    last.op \in {"read_entries", "search_entries"}
    => /\ ret.ok
       /\ \A e \in Elements(ret.value) : HasMsg(e)
       /\ (last.op = "read_entries" /\ last.limit = None /\ last.since = None)
          => \A c \in Elements(FileChunks) : WellFormed(c) => c \in Elements(ret.value)

\* The file holds the appended entries and nothing else
StartedEmpty == Len(FileChunks) = Len(appended)

\* C8: after N add_entry calls on an empty worklog, read_entries(limit=k)
\* returns the min(k, N) most recently appended entries, newest first, for
\* every k >= 0, and all N, newest first, without a limit.
C8_LimitReturnsNewest ==
    (last.op = "read_entries" /\ last.since = None /\ StartedEmpty)
    => LET all == Reverse([i \in 1..Len(appended) |-> JsonObject(appended[i])])
       IN  /\ ret.ok
           /\ ret.value = IF last.limit = None THEN all
                          ELSE SubSeq(all, 1, Min(last.limit[1], Len(appended)))

\* The lines of worklog.jsonl; none when the file is missing
WorklogLines(file) == IF file = NoFile THEN <<>> ELSE FileLines(file[1], <<>>)

Entries ==
    LET lines == SelectSeq(WorklogLines(worklog_file),
                           LAMBDA l : Len(l) = 1 /\ l[1].t = "object")
    IN  [i \in 1..Len(lines) |-> lines[i][1]]

\* The message or a tag of the entry contains the query, letter case aside
Matches(entry, query) ==
    \/ /\ "msg" \in DOMAIN entry.v
       /\ entry.v["msg"].k = "str"
       /\ IsSubstring(Lower(query), Lower(entry.v["msg"].s))
    \/ /\ "tags" \in DOMAIN entry.v
       /\ \E i \in 1..Len(entry.v["tags"]) :
             /\ entry.v["tags"][i].k = "str"
             /\ IsSubstring(Lower(query), Lower(entry.v["tags"][i].s))

\* The first k entries of a list
FirstK(entries, limit) ==
    IF limit = None THEN entries
    ELSE SubSeq(entries, 1, Min(limit[1], Len(entries)))

\* C18: search_entries(q) raises nothing and returns, newest first, the
\* entries of the file whose message or one of whose tags contains q,
\* letter case aside, each once (none when nothing matches or the file is
\* missing); with limit=k, the first k of them.
C18_SearchReturnsMatches ==
    last.op = "search_entries"
    => /\ ret.ok
       /\ ret.value
            = FirstK(Reverse(SelectSeq(Entries, LAMBDA e : Matches(e, last.query))),
                     last.limit)

\* The entry has a timestamp that is not before the instant t
NotBefore(entry, t) ==
    /\ "ts" \in DOMAIN entry.v
    /\ entry.v["ts"].k \in {"aware", "naive"}
    /\ entry.v["ts"].t >= t

\* C19: read_entries(since=s) with s a bare date, taken as 00:00 UTC of the
\* day, or a full timestamp raises nothing and returns the entries of the
\* file whose timestamp is not before s, the one at exactly s among them,
\* newest first.
C19_SinceKeepsNotBefore ==
    ( /\ last.op = "read_entries"
      /\ last.limit = None
      /\ last.since # None
      /\ last.since[1].k \in {"date", "aware", "naive"} )
    => /\ ret.ok
       /\ ret.value
            = Reverse(SelectSeq(Entries, LAMBDA e : NotBefore(e, last.since[1].t)))

----------------------------------------------------------------------------
(* RepoLocator: the calls a run makes, and what they are called with *)

OverlayName == "rhdh-plugin-export-overlays"

\* The directories that may exist: the target of the link /l, the directory
\* ./c of the working directory, and ../repo/<name> and ../../repo/<name>
\* of the two skill roots
RepoDirs ==
    { <<"e">>, <<"w", "c">>, <<"r", "s", "repo", OverlayName>>,
      <<"r", "repo", OverlayName>> }

\* RHDH_OVERLAY_REPO: unset, empty, or the link /l
OverlayEnvs == {None, Some(<<>>), Some(<<"/", "l">>)}

\* SKILL_ROOT: unset, or /r/k
SkillRootEnvs == {None, Some(<<"/", "r", "k">>)}

\* The keys and values of `config set`: the path c, a number, a boolean,
\* null, a list and a mapping
SetKeys == {<<"overlay">>, <<"repos">>}

SetValues ==
    { <<"c">>, <<"5">>, <<"true">>, <<"null">>, <<"[", "5", "]">>, <<"{", "}">> }

RCall(op, key, value, global_) ==
    [op |-> op, key |-> key, value |-> value, global_ |-> global_]

RepoInit ==
    /\ user_config \in {NoFile, Some(GarbageText)}
    /\ project_config = NoFile
    /\ environ \in [RHDH_OVERLAY_REPO : OverlayEnvs, SKILL_ROOT : SkillRootEnvs]
    /\ dirs \in SUBSET RepoDirs
    /\ n_sets = 0
    /\ last = RCall("start", <<>>, <<>>, FALSE)
    /\ ret = Ok(None)
    /\ TodoIdle
    /\ WorklogIdle
    /\ ProcIdle

ConfigSet ==
    /\ n_sets < MaxSets
    /\ \E key \in SetKeys, value \in SetValues, global_ \in BOOLEAN :
          LET r == _config_set(Some(key), Some(value), global_, user_config,
                               project_config)
          IN  /\ user_config' = r.user
              /\ project_config' = r.project
              /\ ret' = r.ret
              /\ last' = RCall("config_set", key, value, global_)
    /\ n_sets' = n_sets + 1
    /\ UNCHANGED <<environ, dirs, todo_vars, worklog_vars, proc_vars>>

FindRepo ==
    /\ ret' = get_overlay_repo(environ, user_config, project_config, dirs)
    /\ last' = RCall("find_repo", <<>>, <<>>, FALSE)
    /\ UNCHANGED <<config_vars, todo_vars, worklog_vars, proc_vars>>

RepoNext == ConfigSet \/ FindRepo

RepoSpec == RepoInit /\ [][RepoNext]_vars

----------------------------------------------------------------------------
(* RepoLocator: properties *)

\* The value at a key path of a document: Some(value), or None
RECURSIVE Lookup(_, _)
Lookup(doc, path) ==
    IF path = <<>> THEN Some(doc)
    ELSE IF IsMap(doc) /\ Has(doc, Head(path))
    THEN Lookup(doc.v[Head(path)], Tail(path))
    ELSE None

Merged == load_merged_config(user_config, project_config)

\* repos.overlay of the merged configuration
Configured == Lookup(Merged, <<"repos", "overlay">>)

\* The candidate of the environment, when RHDH_OVERLAY_REPO is set and
\* not empty
EnvCandidate ==
    IF environ["RHDH_OVERLAY_REPO"] \in {None, Some(<<>>)} THEN <<>>
    ELSE <<Path(environ["RHDH_OVERLAY_REPO"][1])>>

\* The candidate of the configuration, when repos.overlay is a string that
\* is not empty
ConfigCandidate ==
    IF Configured # None /\ Configured[1].t = "str" /\ Configured[1].s # <<>>
    THEN <<Path(Configured[1].s)>>
    ELSE <<>>

\* installRoot/../repo/<name> and installRoot/../../repo/<name>
OffsetCandidates ==
    LET root == get_skill_root(environ)
    IN  << Div(Div(parent(root), "repo"), OverlayName),
           Div(Div(parent(parent(root)), "repo"), OverlayName) >>

\* The canonical path of the first candidate that is a directory
FirstExisting(candidates) ==
    LET found == SelectSeq(candidates, LAMBDA c : is_dir(c, dirs))
    IN  IF found = <<>> THEN None ELSE Some(resolve(found[1]))

\* C1: find_repo returns the canonical path of the first candidate, in the
\* order environment, repos.<key> of the merged configuration,
\* installRoot/../repo/<name>, installRoot/../../repo/<name>, that is an
\* existing directory, and not-found when there is none, whatever the
\* environment, the configuration and the directories are.
C1_FirstExistingCandidate ==
    last.op = "find_repo"
    => /\ ret.ok
       /\ ret.value = FirstExisting(EnvCandidate \o ConfigCandidate \o OffsetCandidates)

\* The configuration names no directory: repos.overlay is no string, is
\* empty, or names a directory that does not exist
NoConfiguredDir ==
    \/ ConfigCandidate = <<>>
    \/ ~is_dir(ConfigCandidate[1], dirs)

\* C9: when repos.<key> of the merged configuration is anything but a
\* non-empty string naming an existing directory, find_repo raises nothing
\* and returns what it returns without the configuration.
C9_NonStringConfigIsAbsent ==
    (last.op = "find_repo" /\ NoConfiguredDir)
    => /\ ret.ok
       /\ ret.value = FirstExisting(EnvCandidate \o OffsetCandidates)

\* C17: config set of overlay to a path that is no existing directory
\* succeeds and stores the string as given at repos.overlay of the scope;
\* a find_repo that follows takes the stored path as absent: it raises
\* nothing and returns what it returns without the configuration.
C17_MissingPathStoredAndSkipped ==
    [][ /\ ( /\ last'.op = "config_set"
             /\ last'.key = <<"overlay">>
             /\ ~is_dir(Path(last'.value), dirs) )
           => /\ ret'.ok
              /\ Lookup(LoadConfig(IF last'.global_ THEN user_config'
                                   ELSE project_config'),
                        <<"repos", "overlay">>) = Some(JStr(last'.value))
        /\ ( /\ last.op = "config_set"
             /\ last.key = <<"overlay">>
             /\ ~is_dir(Path(last.value), dirs)
             /\ last'.op = "find_repo" )
           => /\ ret'.ok
              /\ ret'.value = FirstExisting(EnvCandidate \o OffsetCandidates)
      ]_vars

----------------------------------------------------------------------------
(* ConfigStore: the calls a run makes, and what they are called with *)

\* A document written earlier: two repositories and a number
StoredDocument ==
    JMap([k \in {"repos", "a"} |->
            IF k = "repos"
            THEN JMap([r \in {"overlay", "local"} |-> JStr(<<"c">>)])
            ELSE JNum(5)])

\* A config file: missing, no JSON, a document, or a JSON text that is a
\* list
ConfigFiles ==
    { NoFile, Some(GarbageText), Some(json_dumps(StoredDocument)),
      Some(json_dumps(JList(<<>>))) }

\* The directories that may exist: ../repo/<name> of the package for the
\* local repository, and ../../repo/<name> of the package (../repo/<name>
\* of SKILL_ROOT) for the overlay
ConfigDirs == { <<"r", "s", "repo", "rhdh-local">>, <<"r", "repo", OverlayName>> }

\* The keys of `config set`: a shorthand, a top-level key, and keys below a
\* value of the stored document that is no mapping
ConfigKeys ==
    { <<"overlay">>, <<"a">>, <<"a", ".", "b">>,
      <<"repos", ".", "overlay", ".", "b">> }

\* The values of `config set`: a number and a mapping
ConfigValues == { <<"5">>, <<"{", "}">> }

CCall(op, key, value, global_, force) ==
    [op |-> op, key |-> key, value |-> value, global_ |-> global_, force |-> force]

ConfigInit ==
    /\ user_config \in ConfigFiles
    /\ project_config \in ConfigFiles
    /\ environ \in [RHDH_OVERLAY_REPO : {None}, SKILL_ROOT : SkillRootEnvs]
    /\ dirs \in SUBSET ConfigDirs
    /\ n_sets = 0
    /\ last = CCall("start", <<>>, <<>>, FALSE, FALSE)
    /\ ret = Ok(None)
    /\ TodoIdle
    /\ WorklogIdle
    /\ ProcIdle

RunConfigSet ==
    /\ n_sets < MaxConfigSets
    /\ \E key \in ConfigKeys, value \in ConfigValues, global_ \in BOOLEAN :
          LET r == _config_set(Some(key), Some(value), global_, user_config,
                               project_config)
          IN  /\ user_config' = r.user
              /\ project_config' = r.project
              /\ ret' = r.ret
              /\ last' = CCall("config_set", key, value, global_, FALSE)
    /\ n_sets' = n_sets + 1
    /\ UNCHANGED <<environ, dirs, todo_vars, worklog_vars, proc_vars>>

RunConfigInit ==
    /\ \E force \in BOOLEAN, global_ \in BOOLEAN :
          LET r == _config_init(force, global_, environ, user_config,
                                project_config, dirs)
          IN  /\ user_config' = r.user
              /\ project_config' = r.project
              /\ ret' = r.ret
              /\ last' = CCall("config_init", <<>>, <<>>, global_, force)
    /\ UNCHANGED <<n_sets, environ, dirs, todo_vars, worklog_vars, proc_vars>>

RunLoad ==
    /\ \E global_ \in BOOLEAN :
          /\ ret' = Ok(<< IF global_ THEN load_user_config(user_config)
                          ELSE load_project_config(project_config) >>)
          /\ last' = CCall("load", <<>>, <<>>, global_, FALSE)
    /\ UNCHANGED <<config_vars, todo_vars, worklog_vars, proc_vars>>

ConfigNext == RunConfigSet \/ RunConfigInit \/ RunLoad

ConfigSpec == ConfigInit /\ [][ConfigNext]_vars

----------------------------------------------------------------------------
(* ConfigStore: properties *)

\* The file of a scope
ScopeFile(global_, user, project) == IF global_ THEN user ELSE project

\* The names of a key, a bare overlay, local or factory standing for the
\* key below repos
KeyNames(key) == SplitDots(SetKey(key), "")

ConfigNames == {"repos", "overlay", "local", "a", "b"}

\* The key paths of at most three names
ConfigPaths == UNION {[1..n -> ConfigNames] : n \in 1..3}

IsPrefix(p, q) == Len(p) <= Len(q) /\ SubSeq(q, 1, Len(p)) = p

\* C15: config set(key, value, scope) writes the file of the scope and no
\* other: in the document of that file the value at the key is the parsed
\* value, below mappings made where a name was missing or held no mapping,
\* every key off the path of the key has the value it had in the document
\* of that scope before, and the file of the other scope is not changed.
C15_SetChangesOnlyThePath ==
    [][ last'.op = "config_set"
        => LET global_ == last'.global_
               path == KeyNames(last'.key)
               old == LoadConfig(ScopeFile(global_, user_config, project_config))
               file == ScopeFile(global_, user_config', project_config')
           IN  /\ ret'.ok
               /\ file # NoFile
               /\ json_loads(file[1]) # None
               /\ LET new == json_loads(file[1])[1]
                  IN  /\ Lookup(new, path) = Some(parse_value(last'.value))
                      /\ \A q \in ConfigPaths :
                            (~IsPrefix(q, path) /\ ~IsPrefix(path, q))
                            => Lookup(new, q) = Lookup(old, q)
               /\ ScopeFile(~global_, user_config', project_config')
                     = ScopeFile(~global_, user_config, project_config)
      ]_vars

\* installRoot/../repo/<name> for the repository of a key of repos
SkillRepoDir(config_key) ==
    Div(Div(parent(get_skill_root(environ)), "repo"), InitRepoName(config_key))

\* C16: config init without force on a scope whose file exists fails with
\* the already-exists message and leaves the file as it is; with force, or
\* when the file is missing, it succeeds and the file holds the mapping
\* with the one key repos over exactly overlay, local and factory, each the
\* canonical path of installRoot/../repo/<name> when the scope is the
\* project and that directory exists, and the empty string otherwise.
C16_InitWritesSkeleton ==
    [][ last'.op = "config_init"
        => LET global_ == last'.global_
               old == ScopeFile(global_, user_config, project_config)
               file == ScopeFile(global_, user_config', project_config')
           IN  IF old # NoFile /\ ~last'.force
               THEN /\ ~ret'.ok
                    /\ ret'.error = "Config already exists"
                    /\ file = old
               ELSE /\ ret'.ok
                    /\ file # NoFile
                    /\ json_loads(file[1]) # None
                    /\ LET doc == json_loads(file[1])[1]
                       IN  /\ IsMap(doc)
                           /\ DOMAIN doc.v = {"repos"}
                           /\ IsMap(doc.v["repos"])
                           /\ DOMAIN doc.v["repos"].v = {"overlay", "local", "factory"}
                           /\ \A r \in {"overlay", "local", "factory"} :
                                 doc.v["repos"].v[r]
                                   = IF ~global_ /\ is_dir(SkillRepoDir(r), dirs)
                                     THEN JStr(str(resolve(SkillRepoDir(r))))
                                     ELSE JStr(<<>>)
      ]_vars

\* A project init has filled in the local repository it found, and left the
\* overlay empty although installRoot/../../repo/<name> exists
C16_Witness ==
    /\ last.op = "config_init"
    /\ ~last.global_
    /\ ret.ok
    /\ environ["SKILL_ROOT"] = None
    /\ dirs = ConfigDirs
    /\ Lookup(LoadConfig(project_config), <<"repos", "local">>)
          = Some(JStr(<<"/", "r", "/", "s", "/", "repo", "/", "rhdh-local">>))
    /\ Lookup(LoadConfig(project_config), <<"repos", "overlay">>) = Some(JStr(<<>>))
    /\ user_config = Some(json_dumps(StoredDocument))

\* C21: load_user_config and load_project_config raise nothing and return
\* a mapping: the one the file holds, and the empty mapping when the file
\* is missing or its content is no JSON text of a mapping.
C21_LoadReturnsMapping ==
    last.op = "load"
    => LET file == ScopeFile(last.global_, user_config, project_config)
           held == IF file = NoFile THEN None ELSE json_loads(file[1])
       IN  /\ ret.ok
           /\ IsMap(ret.value[1])
           /\ ret.value[1] = IF held # None /\ IsMap(held[1]) THEN held[1]
                             ELSE EmptyMap

----------------------------------------------------------------------------
(* ConfigStore: a document saved and loaded *)

\* The documents given to save_config: the empty mapping, nested
\* mappings, a list of values of every kind, an empty key, and a string
\* with a quote, a backslash and a blank in it
SaveDocuments ==
    { EmptyMap,
      StoredDocument,
      JMap([k \in {"a", "b"} |->
              IF k = "a"
              THEN JList(<<JNum(5), JStr(<<"c">>), JNull, JList(<<>>), EmptyMap>>)
              ELSE JMap([e \in {""} |-> JBool(TRUE)])]),
      JMap([k \in {"a"} |-> JStr(<<"\"", "\\", " ", "c">>)]) }

RunSave ==
    /\ \E config \in SaveDocuments, global_ \in BOOLEAN :
          LET saved == save_config(config, global_, user_config, project_config)
          IN  /\ user_config' = saved.user
              /\ project_config' = saved.project
              /\ ret' = Ok(<<JBool(TRUE)>>)
              /\ last' = CCall("save", <<>>, config, global_, FALSE)
    /\ UNCHANGED <<n_sets, environ, dirs, todo_vars, worklog_vars, proc_vars>>

SaveNext == RunSave \/ RunLoad

SaveSpec == ConfigInit /\ [][SaveNext]_vars

\* C22: save_config(D, scope) leaves the file of the other scope as it is,
\* and the load of the same scope that follows it returns D.
C22_SaveLoadRoundTrip ==
    [][ /\ last'.op = "save"
           => /\ ret'.ok
              /\ ScopeFile(~last'.global_, user_config', project_config')
                    = ScopeFile(~last'.global_, user_config, project_config)
        /\ (last.op = "save" /\ last'.op = "load" /\ last'.global_ = last.global_)
           => /\ ret'.ok
              /\ ret'.value[1] = last.value
      ]_vars

\* A load has returned the document with the quote and the backslash, which
\* only a save has written, the file of the other scope being no JSON
C22_Witness ==
    /\ last.op = "load"
    /\ ret.ok
    /\ ret.value[1] = JMap([k \in {"a"} |-> JStr(<<"\"", "\\", " ", "c">>)])
    /\ ScopeFile(~last.global_, user_config, project_config) = Some(GarbageText)

----------------------------------------------------------------------------
(* deep_merge: the documents it is applied to *)

MergeKeys == {"a", "b"}

MergeLeaves == {JNum(5), JList(<<JNum(5)>>)}

\* The mappings of at most the given depth over MergeKeys and MergeLeaves
RECURSIVE Documents(_)
Documents(depth) ==
    LET values == IF depth = 1 THEN MergeLeaves
                  ELSE MergeLeaves \cup Documents(depth - 1)
    IN  {JMap(f) : f \in UNION {[keys -> values] : keys \in SUBSET MergeKeys}}

MergeInit ==
    /\ user_config \in {NoFile} \cup {Some(json_dumps(d)) : d \in Documents(MergeDepth)}
    /\ project_config
          \in {NoFile} \cup {Some(json_dumps(d)) : d \in Documents(MergeDepth)}
    /\ environ = [RHDH_OVERLAY_REPO |-> None, SKILL_ROOT |-> None]
    /\ dirs = {}
    /\ n_sets = 0
    /\ last = RCall("start", <<>>, <<>>, FALSE)
    /\ ret = Ok(EmptyMap)
    /\ TodoIdle
    /\ WorklogIdle
    /\ ProcIdle

LoadMergedConfig ==
    /\ ret' = Ok(load_merged_config(user_config, project_config))
    /\ last' = RCall("load_merged_config", <<>>, <<>>, FALSE)
    /\ UNCHANGED <<config_vars, todo_vars, worklog_vars, proc_vars>>

MergeNext == LoadMergedConfig

MergeSpec == MergeInit /\ [][MergeNext]_vars

----------------------------------------------------------------------------
(* deep_merge: properties *)

\* The key paths that a document of the depth, or one level deeper, may have
KeyPaths == UNION {[1..n -> MergeKeys] : n \in 1..(MergeDepth + 1)}

\* P holds a list or a scalar at a proper prefix of the path
ReplacedAbove(P, path) ==
    \E i \in 1..(Len(path) - 1) :
        LET above == Lookup(P, SubSeq(path, 1, i))
        IN  above # None /\ ~IsMap(above[1])

\* C10: deep_merge(U, P) is P at every key path that P defines (a list or a
\* scalar of P replacing the value of U wholesale, a mapping of P giving a
\* mapping) and U at every other path; deep_merge(U, {}) = U and
\* deep_merge({}, P) = P.
C10_DeepMergeLaw ==
    last.op = "load_merged_config"
    => LET U == load_user_config(user_config)
           P == load_project_config(project_config)
           M == ret.value
       IN  /\ IsMap(M)
           /\ \A path \in KeyPaths :
                 LET u == Lookup(U, path)
                     p == Lookup(P, path)
                     m == Lookup(M, path)
                 IN  IF p # None
                     THEN IF IsMap(p[1]) THEN m # None /\ IsMap(m[1]) ELSE m = p
                     ELSE IF ReplacedAbove(P, path) THEN m = None
                     ELSE m = u
           /\ (P = EmptyMap => M = U)
           /\ (U = EmptyMap => M = P)

\* A merge of two documents that share a nested key with different values,
\* where U has a nested key that P lacks and P has a list where U has a
\* mapping
C10_Witness ==
    /\ last.op = "load_merged_config"
    /\ LET U == load_user_config(user_config)
           P == load_project_config(project_config)
       IN  /\ Lookup(U, <<"a", "a">>) = Some(JNum(5))
           /\ Lookup(P, <<"a", "a">>) = Some(JList(<<JNum(5)>>))
           /\ Lookup(U, <<"a", "b">>) = Some(JNum(5))
           /\ Lookup(P, <<"a", "b">>) = None
           /\ Lookup(U, <<"b", "a">>) = Some(JNum(5))
           /\ Lookup(P, <<"b">>) = Some(JList(<<JNum(5)>>))
           /\ Lookup(ret.value, <<"a", "b">>) = Some(JNum(5))

----------------------------------------------------------------------------
(* collect_keys: the documents it is applied to *)

\* The names of a key: the empty name among them
PartNames == {"", "a", "b"}

KeyPartLists == UNION {[1..n -> PartNames] : n \in 1..MaxKeyParts}

\* The values at a key: a number, a list and the empty mapping
KeyValues == {JNum(5), JList(<<JNum(5)>>), EmptyMap}

\* The documents that two set_nested calls make of the empty mapping
KeyDocuments ==
    { SetParts(SetParts(EmptyMap, p1, v1), p2, v2) :
        p1 \in KeyPartLists, v1 \in KeyValues, p2 \in KeyPartLists, v2 \in KeyValues }

KeysCall(op, data) == [op |-> op, data |-> data]

KeysInit ==
    /\ last \in {KeysCall("document", data) : data \in KeyDocuments}
    /\ ret = Ok(<<>>)
    /\ TodoIdle
    /\ WorklogIdle
    /\ ConfigIdle
    /\ ProcIdle

CollectKeys ==
    /\ last.op = "document"
    /\ ret' = Ok(collect_keys(last.data, <<>>))
    /\ last' = KeysCall("collect_keys", last.data)
    /\ UNCHANGED <<todo_vars, worklog_vars, config_vars, proc_vars>>

KeysNext == CollectKeys

KeysSpec == KeysInit /\ [][KeysNext]_vars

\* The names joined by dots
RECURSIVE DotJoin(_)
DotJoin(path) ==
    IF path = <<>> THEN <<>>
    ELSE (IF Head(path) = "" THEN <<>> ELSE <<Head(path)>>)
         \o (IF Len(path) = 1 THEN <<>> ELSE <<".">> \o DotJoin(Tail(path)))

\* The paths from the root of a document to its values that are no mapping
LeafPaths(data) ==
    { path \in UNION {[1..n -> PartNames] : n \in 1..(MaxKeyParts + 1)} :
        Lookup(data, path) # None /\ ~IsMap(Lookup(data, path)[1]) }

\* C23: collect_keys(D) lists, each once, the dot-joined paths from the
\* root of D to its values that are no mapping, and no other; get_nested
\* finds every listed path and returns a value that is no mapping.
C23_KeysAreLeafPaths ==
    last.op = "collect_keys"
    => LET keys == ret.value
       IN  /\ {keys[i] : i \in 1..Len(keys)}
                = {DotJoin(path) : path \in LeafPaths(last.data)}
           /\ Len(keys) = Cardinality(LeafPaths(last.data))
           /\ \A i \in 1..Len(keys) :
                 /\ get_nested(last.data, keys[i]).ok
                 /\ ~IsMap(get_nested(last.data, keys[i]).value[1])

----------------------------------------------------------------------------
(* slugify: the titles it is applied to *)

\* n times the token
Run(tok, n) == [i \in 1..n |-> tok]

\* What stands before, between and after the two words of a title
Separators == { <<>>, <<"-">>, <<" ", ":">>, <<"Q">> }

\* The lengths of the first word: short, and around the limit of the slug
RunLengths == {0, 1} \cup ((SlugMaxLen - RunSlack)..(SlugMaxLen + 1))

SlugTitles ==
    { lead \o Run("q", n) \o mid \o Run("z", m) \o trail :
        lead \in Separators, n \in RunLengths, mid \in Separators,
        m \in 0..MaxTail, trail \in Separators }

SlugCall(op, title) == [op |-> op, title |-> title]

SlugInit ==
    /\ last \in {SlugCall("title", title) : title \in SlugTitles}
    /\ ret = Some(<<>>)
    /\ TodoIdle
    /\ WorklogIdle
    /\ ConfigIdle
    /\ ProcIdle

Slugify ==
    /\ last.op = "title"
    /\ ret' = Some(slugify(last.title))
    /\ last' = SlugCall("slugify", last.title)
    /\ UNCHANGED <<todo_vars, worklog_vars, config_vars, proc_vars>>

SlugNext == Slugify

SlugSpec == SlugInit /\ [][SlugNext]_vars

\* The characters of [a-z0-9-] among the tokens
SlugAlphabet == {"q", "z", "x", "-"}

\* C20: for every title t, slugify(t) is lowercase, has only characters
\* of [a-z0-9-], neither starts nor ends with a hyphen, and is at most 50
\* characters long.
C20_SlugShape ==
    last.op = "slugify"
    => LET slug == ret[1]
       IN  /\ \A i \in 1..Len(slug) : slug[i] \in SlugAlphabet
           /\ slug # <<>> => (slug[1] # "-" /\ slug[Len(slug)] # "-")
           /\ Len(slug) <= SlugMaxLen

\* A title of an upper-case letter, a word that ends right below the limit,
\* a hyphen and a second word: its slug is cut at the hyphen
C20_Witness ==
    /\ last.op = "slugify"
    /\ last.title = <<"Q">> \o Run("q", SlugMaxLen - 2) \o <<"-">> \o Run("z", 2)
                      \o <<" ", ":">>
    /\ ret[1] = Run("q", SlugMaxLen - 1)

----------------------------------------------------------------------------
(* Two invocations side by side on TODO.md or on the project's config.json *)

\* The two processes that run one invocation each
Procs == {1, 2}

\* An edit made on the file as it is when the write is made
Written_OnFile(call, todo, held, file) ==
    CASE call.op = "add_todo" -> add_todo(file, call.title, call.context).file
      [] call.op = "mark_done" -> WriteText(MarkDoneLines(file, todo[1]))
      [] call.op = "add_note" -> WriteText(AddNoteLines(file, todo[1], call.note))

\* The lines the write of a todo call stores: the edit of the call, made on
\* the lines the invocation holds (the file at the time of the write is not
\* looked at). mark_done and add_note edit at the offsets of the item their
\* lookup has found.
Written(call, todo, held, file) ==
    CASE call.op = "add_todo" -> add_todo(held, call.title, call.context).file
      [] call.op = "mark_done" -> WriteText(MarkDoneLines(held, todo[1]))
      [] call.op = "add_note" -> WriteText(AddNoteLines(held, todo[1], call.note))

RaceTodoCalls ==
    { Call("add_todo", <<"q">>, None, <<>>, <<>>),
      Call("add_todo", <<"z">>, None, <<>>, <<>>),
      Call("mark_done", <<>>, None, <<"q">>, <<>>),
      Call("add_note", <<>>, None, <<"q">>, <<"z">>),
      Call("add_note", <<>>, None, <<"z">>, <<"q">>) }

RaceSetCalls ==
    { CCall("config_set", <<"a">>, <<"5">>, FALSE, FALSE),
      CCall("config_set", <<"b">>, <<"5">>, FALSE, FALSE),
      CCall("config_set", <<"a">>, <<"{", "}">>, FALSE, FALSE) }

\* TODO.md before the two invocations: missing, with one item that add_todo
\* has written, or written by hand
RaceTodoFiles == {NoFile, add_todo(NoFile, <<"q">>, None).file, HandWrittenFile}

RaceConfigFiles == {NoFile, Some(json_dumps(StoredDocument))}

\* What an invocation holds: its call, the item its lookup found, the
\* content it has read, the processes that had written when it looked up and
\* when it read, the content it wrote and its place among the writes, and
\* what it returned
Holding(call) ==
    [ call |-> call, todo |-> None, lines |-> NoFile, config |-> EmptyMap,
      looked_after |-> {}, read_after |-> {}, written |-> NoFile, wrote |-> 0,
      ret |-> None ]

FirstStep(call) == IF call.op \in {"mark_done", "add_note"} THEN "lookup" ELSE "read"

\* The processes that have written
Writers == {q \in Procs : local[q].wrote > 0}

RaceInit ==
    /\ \/ /\ todo_file \in RaceTodoFiles
          /\ project_config = NoFile
          /\ \E calls \in [Procs -> RaceTodoCalls] :
                /\ local = [p \in Procs |-> Holding(calls[p])]
                /\ pc = [p \in Procs |-> FirstStep(calls[p])]
       \/ /\ todo_file = NoFile
          /\ project_config \in RaceConfigFiles
          /\ \E calls \in [Procs -> RaceSetCalls] :
                /\ local = [p \in Procs |-> Holding(calls[p])]
                /\ pc = [p \in Procs |-> FirstStep(calls[p])]
    /\ before = todo_file
    /\ last = Call("start", <<>>, None, <<>>, <<>>)
    /\ ret = None
    /\ n_adds = 0
    /\ n_notes = 0
    /\ WorklogIdle
    /\ user_config = NoFile
    /\ environ = [RHDH_OVERLAY_REPO |-> None, SKILL_ROOT |-> None]
    /\ dirs = {}
    /\ n_sets = 0

\* get_todo(slug) of mark_done and of add_note: the first read
RaceLookup(p) ==
    /\ pc[p] = "lookup"
    /\ LET call == local[p].call
           lines == _ensure_todo_file(todo_file)
           todo == get_todo(lines, call.slug)
       IN  /\ todo_file' = lines
           /\ IF todo = None
              THEN /\ pc' = [pc EXCEPT ![p] = "done"]
                   /\ local' = [local EXCEPT ![p].looked_after = Writers]
              ELSE IF call.op = "mark_done" /\ todo[1].done
              THEN /\ pc' = [pc EXCEPT ![p] = "done"]
                   /\ local' = [local EXCEPT ![p].looked_after = Writers,
                                             ![p].ret = todo]
              ELSE /\ pc' = [pc EXCEPT ![p] = "read"]
                   /\ local' = [local EXCEPT ![p].looked_after = Writers,
                                             ![p].todo = todo]
    /\ UNCHANGED <<before, n_adds, n_notes, worklog_vars, config_vars, last, ret>>

\* content = TODO_FILE.read_text()
RaceReadTodo(p) ==
    /\ pc[p] = "read"
    /\ local[p].call.op # "config_set"
    /\ LET lines == _ensure_todo_file(todo_file)
       IN  /\ todo_file' = lines
           /\ local' = [local EXCEPT ![p].lines = lines, ![p].read_after = Writers]
    /\ pc' = [pc EXCEPT ![p] = "write"]
    /\ UNCHANGED <<before, n_adds, n_notes, worklog_vars, config_vars, last, ret>>

\* TODO_FILE.write_text("\n".join(lines)), and what the call returns when
\* this is its last step
RaceWriteTodo(p) ==
    /\ pc[p] = "write"
    /\ local[p].call.op # "config_set"
    /\ LET call == local[p].call
           todo == local[p].todo
           new == Written(call, todo, local[p].lines, todo_file)
           result == CASE call.op = "add_todo" ->
                            add_todo(local[p].lines, call.title, call.context).ret
                       [] call.op = "mark_done" ->
                            Some([todo[1] EXCEPT !.done = TRUE,
                                                 !.completed = Some(<<Today>>)])
                       [] call.op = "add_note" -> None
       IN  /\ todo_file' = new
           /\ local' = [local EXCEPT ![p].written = new,
                                     ![p].wrote = Cardinality(Writers) + 1,
                                     ![p].ret = result]
           /\ pc' = [pc EXCEPT ![p] = IF call.op = "add_note" THEN "reread" ELSE "done"]
    /\ UNCHANGED <<before, n_adds, n_notes, worklog_vars, config_vars, last, ret>>

\* return get_todo(slug) of add_note: the third read
RaceReread(p) ==
    /\ pc[p] = "reread"
    /\ local' = [local EXCEPT ![p].ret = get_todo(todo_file, local[p].call.slug)]
    /\ pc' = [pc EXCEPT ![p] = "done"]
    /\ UNCHANGED <<todo_vars, worklog_vars, config_vars, last, ret>>

\* config = load_project_config() of _config_set
RaceLoad(p) ==
    /\ pc[p] = "read"
    /\ local[p].call.op = "config_set"
    /\ LET config == load_project_config(project_config)
       IN  IF IsMap(config)
           THEN /\ local' = [local EXCEPT ![p].config = config,
                                          ![p].read_after = Writers]
                /\ pc' = [pc EXCEPT ![p] = "write"]
           ELSE /\ local' = [local EXCEPT ![p].read_after = Writers,
                                          ![p].ret = Raise("TypeError")]
                /\ pc' = [pc EXCEPT ![p] = "done"]
    /\ UNCHANGED <<todo_vars, worklog_vars, config_vars, last, ret>>

\* set_nested(config, full_key, parsed_value); save_config(config) of
\* _config_set, and its result
RaceSave(p) ==
    /\ pc[p] = "write"
    /\ local[p].call.op = "config_set"
    /\ LET call == local[p].call
           full_key == SetKey(call.key)
           parsed_value == parse_value(call.value)
           saved == save_config(set_nested(local[p].config, full_key, parsed_value),
                                FALSE, user_config, project_config)
       IN  /\ project_config' = saved.project
           /\ local' = [local EXCEPT
                          ![p].written = saved.project,
                          ![p].wrote = Cardinality(Writers) + 1,
                          ![p].ret = Ok(<< [ key |-> full_key, value |-> parsed_value,
                                            scope |-> "project" ],
                                          <<"rhdh config show">> >>)]
    /\ pc' = [pc EXCEPT ![p] = "done"]
    /\ UNCHANGED <<todo_vars, worklog_vars, user_config, environ, dirs, n_sets,
                   last, ret>>

RaceNext ==
    \E p \in Procs :
        \/ RaceLookup(p)
        \/ RaceReadTodo(p)
        \/ RaceWriteTodo(p)
        \/ RaceReread(p)
        \/ RaceLoad(p)
        \/ RaceSave(p)

RaceSpec == RaceInit /\ [][RaceNext]_vars

\* The call made alone on the file: the file afterwards and the result
Solo(call, file) ==
    CASE call.op = "add_todo" -> add_todo(file, call.title, call.context)
      [] call.op = "mark_done" -> mark_done(file, call.slug)
      [] call.op = "add_note" -> add_note(file, call.slug, call.note)

\* Both invocations are over, both have written, and each had read before
\* either wrote
BothReadFirst ==
    \A p \in Procs :
        /\ pc[p] = "done"
        /\ local[p].wrote > 0
        /\ local[p].read_after = {}

LaterWriter == CHOOSE p \in Procs : local[p].wrote = 2

EarlierWriter == CHOOSE p \in Procs : local[p].wrote = 1

\* C25: when two invocations on the same file have both read before either
\* writes, the file at the end is what the later writer wrote, which is what
\* its call makes of the file read when it runs alone (nothing of the
\* earlier write is kept), and both invocations return as a call that has
\* succeeded.
C25_LaterWriterWins ==
    BothReadFirst
    => LET call == local[LaterWriter].call
       IN  IF call.op = "config_set"
           THEN \E file \in RaceConfigFiles :
                  LET alone == _config_set(Some(call.key), Some(call.value), FALSE,
                                           user_config, file)
                  IN  /\ \A p \in Procs : local[p].config = load_project_config(file)
                      /\ project_config = local[LaterWriter].written
                      /\ project_config = alone.project
                      /\ local[LaterWriter].ret = alone.ret
                      /\ local[EarlierWriter].ret.ok
           ELSE /\ todo_file = local[LaterWriter].written
                /\ todo_file = Solo(call, before).file
                /\ \A p \in Procs :
                      /\ local[p].ret # None
                      /\ local[p].call.op # "add_note"
                         => local[p].ret = Solo(local[p].call, before).ret

\* Two different todo calls have both read first, and what the earlier one
\* wrote is not in the file
C25_Witness ==
    /\ BothReadFirst
    /\ local[1].call.op # "config_set"
    /\ local[1].call # local[2].call
    /\ local[EarlierWriter].written # before
    /\ todo_file # local[EarlierWriter].written
    /\ todo_file # Solo(local[LaterWriter].call, local[EarlierWriter].written).file

\* The other process
Other(p) == CHOOSE q \in Procs : q # p

\* Process p has resolved an item and written its edit, and the other
\* process, an add_todo, wrote between the lookup of p and the second read
\* of p
AddedBetween(p) ==
    /\ local[p].call.op \in {"mark_done", "add_note"}
    /\ local[p].wrote > 0
    /\ local[Other(p)].call.op = "add_todo"
    /\ Other(p) \notin local[p].looked_after
    /\ Other(p) \in local[p].read_after

\* C29: when an add_todo of another invocation is completed between the
\* lookup and the second read of a mark_done or an add_note, what the call
\* writes differs from what it read the second time only inside the section
\* of the item it resolved: the lines before the header of that item and
\* the lines from the end of its section on are as they were read.
C29_EditInsideResolvedSection ==
    \A p \in Procs :
        AddedBetween(p)
        => LET held == local[p].lines
               new == local[p].written
               item == get_todo(held, local[p].call.slug)
           IN  /\ item # None
               /\ item[1].title = local[p].todo[1].title
               /\ Len(new) >= Len(held)
               /\ SubSeq(new, 1, item[1].line_start) = SubSeq(held, 1, item[1].line_start)
               /\ SubSeq(new, Len(new) - (Len(held) - item[1].line_end) + 1, Len(new))
                    = SubSeq(held, item[1].line_end + 1, Len(held))

----------------------------------------------------------------------------
(* Two add_entry invocations side by side on worklog.jsonl *)

\* f.write(json.dumps(entry) + "\n") on the file opened with "a": one step
\* that puts the line at the end of what the file holds then (and makes the
\* file when it is missing)
AppendLine(file, entry) == Some(_ensure_worklog(file)[1] \o <<JsonObject(entry), NL>>)

WorklogHolding(args) == [args |-> args, ret |-> None]

WorklogRaceInit ==
    /\ worklog_file \in InitialWorklogs
    /\ clock = 1
    /\ appended = <<>>
    /\ last = WCall("start", <<>>, None, None, None, <<>>)
    /\ ret = Ok(<<>>)
    /\ \E calls \in [Procs -> AddEntryArgs] :
          local = [p \in Procs |-> WorklogHolding(calls[p])]
    /\ pc = [p \in Procs |-> "exists"]
    /\ TodoIdle
    /\ ConfigIdle

\* `if not worklog_file.exists()` of _ensure_worklog
CheckExists(p) ==
    /\ pc[p] = "exists"
    /\ pc' = [pc EXCEPT ![p] = IF worklog_file = NoFile THEN "touch" ELSE "stamp"]
    /\ UNCHANGED <<local, worklog_vars, todo_vars, config_vars, last, ret>>

\* worklog_file.touch(): makes the file when it is missing, and leaves the
\* content of a file that is there
Touch(p) ==
    /\ pc[p] = "touch"
    /\ worklog_file' = _ensure_worklog(worklog_file)
    /\ pc' = [pc EXCEPT ![p] = "stamp"]
    /\ UNCHANGED <<local, clock, appended, todo_vars, config_vars, last, ret>>

\* entry = {"ts": datetime.now(timezone.utc).isoformat(), "msg": message, ...}
Stamp(p) ==
    /\ pc[p] = "stamp"
    /\ local' = [local EXCEPT ![p].ret =
                    Some(add_entry(worklog_file, local[p].args[1], local[p].args[2],
                                   clock).ret)]
    /\ clock' = clock + 1
    /\ pc' = [pc EXCEPT ![p] = "append"]
    /\ UNCHANGED <<worklog_file, appended, todo_vars, config_vars, last, ret>>

\* with get_worklog_file().open("a") as f: f.write(...); return entry
AppendEntry(p) ==
    /\ pc[p] = "append"
    /\ worklog_file' = AppendLine(worklog_file, local[p].ret[1])
    /\ appended' = Append(appended, local[p].ret[1])
    /\ pc' = [pc EXCEPT ![p] = "done"]
    /\ UNCHANGED <<local, clock, todo_vars, config_vars, last, ret>>

WorklogRaceNext ==
    \E p \in Procs : CheckExists(p) \/ Touch(p) \/ Stamp(p) \/ AppendEntry(p)

WorklogRaceSpec == WorklogRaceInit /\ [][WorklogRaceNext]_vars

----------------------------------------------------------------------------
(* ConfigStore: `config set` on the project scope and `config get` *)

\* The keys: a top-level key, a key that the user's document holds a
\* mapping at, and a shorthand
GetKeys == {<<"a">>, <<"repos">>, <<"overlay">>}

\* The user's file: missing, a document, or a JSON list
GetUserFiles ==
    {NoFile, Some(json_dumps(StoredDocument)), Some(json_dumps(JList(<<>>)))}

GetProjectFiles == {NoFile, Some(json_dumps(StoredDocument))}

GetInit ==
    /\ user_config \in GetUserFiles
    /\ project_config \in GetProjectFiles
    /\ environ = [RHDH_OVERLAY_REPO |-> None, SKILL_ROOT |-> None]
    /\ dirs = {}
    /\ n_sets = 0
    /\ last = CCall("start", <<>>, <<>>, FALSE, FALSE)
    /\ ret = Ok(<<>>)
    /\ TodoIdle
    /\ WorklogIdle
    /\ ProcIdle

SetOnProject ==
    /\ n_sets < MaxConfigSets
    /\ \E key \in GetKeys, value \in ConfigValues :
          LET r == _config_set(Some(key), Some(value), FALSE, user_config,
                               project_config)
          IN  /\ user_config' = r.user
              /\ project_config' = r.project
              /\ ret' = r.ret
              /\ last' = CCall("config_set", key, value, FALSE, FALSE)
    /\ n_sets' = n_sets + 1
    /\ UNCHANGED <<environ, dirs, todo_vars, worklog_vars, proc_vars>>

RunConfigGet ==
    /\ \E key \in GetKeys :
          /\ ret' = _config_get(Some(key), user_config, project_config)
          /\ last' = CCall("config_get", key, <<>>, FALSE, FALSE)
    /\ UNCHANGED <<config_vars, todo_vars, worklog_vars, proc_vars>>

GetNext == SetOnProject \/ RunConfigGet

GetSpec == GetInit /\ [][GetNext]_vars

\* C30: a `config get` of the key that follows a `config set` of that key
\* on the project scope that has succeeded returns the parsed value that
\* was set, whatever the user's document is and for every value, a mapping
\* and the empty mapping too.
C30_GetReturnsWhatWasSet ==
    [][ ( /\ last.op = "config_set"
          /\ ret.ok
          /\ last'.op = "config_get"
          /\ last'.key = last.key )
        => /\ ret'.ok
           /\ ret'.value[1].value = parse_value(last.value) ]_vars

====
